---------------------------- MODULE Spec2Model ----------------------------
(***************************************************************************)
(* A model of sblinch/kdl-go: the string codec of package document, the    *)
(* parser's transition table and context, the parse entry point, the       *)
(* scanner of package tokenizer and the serializer of package document.    *)
(* Strings are sequences of bytes (0..255); indices in the operators that  *)
(* follow a Go loop are the Go (0-based) indices, read through At.         *)
(***************************************************************************)
EXTENDS Integers, Sequences, FiniteSets, TLC

(***************************************************************************)
(* Bounds of the model.                                                    *)
(***************************************************************************)
MaxStrLen == 3
MaxNodes == 2
MaxItems == 2
MaxDepth == 4
MaxAnnots == 1
MaxLine == 1
MaxTokens == 7
MaxElisionTokens == 10
MaxPropertiesTokens == 13
MaxEqualsTokens == 7
MaxAnnotated == 15

(***************************************************************************)
(* Bytes and small helpers.                                                *)
(***************************************************************************)
At(s, i) == s[i + 1]

\* s[from:to] of Go: the bytes at 0-based indices from .. to-1
Slice(s, from, to) == IF from >= to THEN << >> ELSE SubSeq(s, from + 1, to)

RECURSIVE Repeat(_, _)
Repeat(c, n) == IF n <= 0 THEN << >> ELSE <<c>> \o Repeat(c, n - 1)

\* bytes.Repeat
RECURSIVE BytesRepeat(_, _)
BytesRepeat(b, n) == IF n <= 0 THEN << >> ELSE b \o BytesRepeat(b, n - 1)

\* strings.Contains
Contains(s, sub) ==
    \E k \in 0..(Len(s) - Len(sub)) : Slice(s, k, k + Len(sub)) = sub

chQuote == 34
chHash == 35
chSlash == 47
chBackslash == 92
chBraceOpen == 123
chBraceClose == 125
chLowerR == 114
chLowerU == 117

RuneSelf == 128
RuneError == 65533
MaxRune == 1114111

IsCont(b) == b >= 128 /\ b <= 191

\* utf8.DecodeRuneInString: the rune at the start of s and its width; an
\* invalid or short sequence is (RuneError, 1), the empty string (RuneError, 0)
DecodeRune(s) ==
    IF Len(s) = 0 THEN [r |-> RuneError, size |-> 0]
    ELSE LET b0 == s[1]
             bad == [r |-> RuneError, size |-> 1] IN
         IF b0 < 128 THEN [r |-> b0, size |-> 1]
         ELSE IF b0 >= 194 /\ b0 <= 223 THEN
             IF Len(s) >= 2 /\ IsCont(s[2])
             THEN [r |-> (b0 - 192) * 64 + (s[2] - 128), size |-> 2]
             ELSE bad
         ELSE IF b0 >= 224 /\ b0 <= 239 THEN
             IF /\ Len(s) >= 3
                /\ s[2] >= (IF b0 = 224 THEN 160 ELSE 128)
                /\ s[2] <= (IF b0 = 237 THEN 159 ELSE 191)
                /\ IsCont(s[3])
             THEN [r |-> (b0 - 224) * 4096 + (s[2] - 128) * 64 + (s[3] - 128),
                   size |-> 3]
             ELSE bad
         ELSE IF b0 >= 240 /\ b0 <= 244 THEN
             IF /\ Len(s) >= 4
                /\ s[2] >= (IF b0 = 240 THEN 144 ELSE 128)
                /\ s[2] <= (IF b0 = 244 THEN 143 ELSE 191)
                /\ IsCont(s[3])
                /\ IsCont(s[4])
             THEN [r |-> (b0 - 240) * 262144 + (s[2] - 128) * 4096
                           + (s[3] - 128) * 64 + (s[4] - 128),
                   size |-> 4]
             ELSE bad
         ELSE bad

\* utf8.AppendRune applied to the empty buffer: the UTF-8 bytes of r
\* (surrogates and out-of-range values encode RuneError)
EncodeRune(r) ==
    LET q == IF r < 0 \/ r > MaxRune \/ (r >= 55296 /\ r <= 57343)
             THEN RuneError ELSE r IN
    IF q < 128 THEN <<q>>
    ELSE IF q < 2048 THEN <<192 + (q \div 64), 128 + (q % 64)>>
    ELSE IF q < 65536 THEN
        <<224 + (q \div 4096), 128 + ((q \div 64) % 64), 128 + (q % 64)>>
    ELSE <<240 + (q \div 262144), 128 + ((q \div 4096) % 64),
           128 + ((q \div 64) % 64), 128 + (q % 64)>>

RECURSIVE EncodeString(_)
EncodeString(rs) ==
    IF rs = << >> THEN << >> ELSE EncodeRune(Head(rs)) \o EncodeString(Tail(rs))

\* the ASCII digit of d (0..15), lower case, as strconv.AppendUint writes it
HexDigit(d) == IF d < 10 THEN 48 + d ELSE 97 + (d - 10)

RECURSIVE AppendUint(_, _)
AppendUint(n, base) ==
    IF n < base THEN <<HexDigit(n)>>
    ELSE AppendUint(n \div base, base) \o <<HexDigit(n % base)>>

(***************************************************************************)
(* document: QuoteString / AppendQuotedString                              *)
(***************************************************************************)
noEscapeTable(c) == c <= 126 /\ c >= 32 /\ c # chBackslash /\ c # chQuote

\* hexTable: the value of a hexadecimal digit, 0 for every other byte
hexTable(c) ==
    IF c >= 48 /\ c <= 57 THEN c - 48
    ELSE IF c >= 97 /\ c <= 102 THEN c - 97 + 10
    ELSE IF c >= 65 /\ c <= 70 THEN c - 65 + 10
    ELSE 0

\* the switch of AppendQuotedString: what is appended for a byte c < RuneSelf
\* that needs escaping
QuoteEscape(c, quote) ==
    IF c = quote \/ c = chBackslash \/ c = chSlash THEN <<chBackslash, c>>
    ELSE IF c = 10 THEN <<chBackslash, 110>>
    ELSE IF c = 13 THEN <<chBackslash, 114>>
    ELSE IF c = 9 THEN <<chBackslash, 116>>
    ELSE IF c = 8 THEN <<chBackslash, 98>>
    ELSE IF c = 12 THEN <<chBackslash, 102>>
    ELSE <<chBackslash, chLowerU>> \o AppendUint(c, 16)

ReplacementEscape == <<chBackslash, chLowerU, 102, 102, 102, 100>>

\* the inner loop of AppendQuotedString from index i, with start and the
\* buffer b built so far
RECURSIVE QuoteLoop(_, _, _, _, _)
QuoteLoop(s, i, start, b, quote) ==
    IF i >= Len(s) THEN
        (IF start < Len(s) THEN b \o Slice(s, start, Len(s)) ELSE b) \o <<quote>>
    ELSE LET c == At(s, i) IN
        IF noEscapeTable(c) THEN QuoteLoop(s, i + 1, start, b, quote)
        ELSE IF c >= RuneSelf THEN
            LET d == DecodeRune(Slice(s, i, Len(s))) IN
            IF d.r = RuneError /\ d.size = 1
            THEN QuoteLoop(s, i + 1, i + 1,
                           b \o Slice(s, start, i) \o ReplacementEscape, quote)
            ELSE QuoteLoop(s, i + d.size, start, b, quote)
        ELSE QuoteLoop(s, i + 1, i + 1,
                       b \o Slice(s, start, i) \o QuoteEscape(c, quote), quote)

AppendQuotedString(b, s, quote) ==
    IF \A i \in 0..(Len(s) - 1) : noEscapeTable(At(s, i))
    THEN b \o <<quote>> \o s \o <<quote>>
    ELSE LET first == CHOOSE i \in 0..(Len(s) - 1) :
                          /\ ~noEscapeTable(At(s, i))
                          /\ \A j \in 0..(i - 1) : noEscapeTable(At(s, j))
         IN QuoteLoop(s, first, 0, b \o <<quote>>, quote)

QuoteString(s) == AppendQuotedString(<< >>, s, chQuote)

(***************************************************************************)
(* document: UnquoteString / AppendUnquotedString                          *)
(***************************************************************************)
NeedsDecoding(c) == c = chBackslash \/ c >= RuneSelf

\* the rune of the hex digits s[rstart..i-1], "working backwards"
RECURSIVE HexValue(_, _, _)
HexValue(s, rstart, i) ==
    IF i <= rstart THEN 0
    ELSE HexValue(s, rstart, i - 1) * 16 + hexTable(At(s, i - 1))

\* the index of the first '}' at or after i, or Len(s)
RECURSIVE FindBraceClose(_, _)
FindBraceClose(s, i) ==
    IF i < Len(s) /\ At(s, i) # chBraceClose THEN FindBraceClose(s, i + 1) ELSE i

\* the inner loop of AppendUnquotedString over the string s without its quotes
RECURSIVE UnquoteLoop(_, _, _, _)
UnquoteLoop(s, i, start, b) ==
    IF i >= Len(s) THEN
        [b |-> IF start < Len(s) THEN b \o Slice(s, start, Len(s)) ELSE b,
         err |-> FALSE]
    ELSE LET c == At(s, i) IN
        IF ~NeedsDecoding(c) THEN UnquoteLoop(s, i + 1, start, b)
        ELSE IF c >= RuneSelf THEN
            LET d == DecodeRune(Slice(s, i, Len(s))) IN
            IF d.r = RuneError /\ d.size = 1
            THEN UnquoteLoop(s, i + 1, i + 1,
                             b \o Slice(s, start, i) \o ReplacementEscape)
            ELSE UnquoteLoop(s, i + d.size, start, b)
        ELSE
            LET b1 == b \o Slice(s, start, i)
                i1 == i + 1 IN
            IF i1 = Len(s) THEN [b |-> b1, err |-> TRUE]
            ELSE LET e == At(s, i1) IN
                IF e = 110 THEN UnquoteLoop(s, i1 + 1, i1 + 1, b1 \o <<10>>)
                ELSE IF e = 114 THEN UnquoteLoop(s, i1 + 1, i1 + 1, b1 \o <<13>>)
                ELSE IF e = 116 THEN UnquoteLoop(s, i1 + 1, i1 + 1, b1 \o <<9>>)
                ELSE IF e = 98 THEN UnquoteLoop(s, i1 + 1, i1 + 1, b1 \o <<8>>)
                ELSE IF e = 102 THEN UnquoteLoop(s, i1 + 1, i1 + 1, b1 \o <<12>>)
                ELSE IF e = chLowerU THEN
                    IF i1 + 3 >= Len(s) \/ At(s, i1 + 1) # chBraceOpen
                    THEN [b |-> b1, err |-> TRUE]
                    ELSE LET rstart == i1 + 2
                             close == FindBraceClose(s, rstart) IN
                        IF close >= Len(s) THEN [b |-> b1, err |-> TRUE]
                        ELSE IF close - rstart > 6 THEN [b |-> b1, err |-> TRUE]
                        ELSE LET r == HexValue(s, rstart, close) IN
                            IF r > MaxRune THEN [b |-> b1, err |-> TRUE]
                            ELSE UnquoteLoop(s, close + 1, close + 1,
                                             b1 \o EncodeRune(r))
                ELSE UnquoteLoop(s, i1 + 1, i1 + 1, b1 \o <<e>>)

AppendUnquotedString(b, s, quote) ==
    IF Len(s) < 2 \/ At(s, 0) # quote \/ At(s, Len(s) - 1) # quote
    THEN [b |-> << >>, err |-> TRUE]
    ELSE LET in == Slice(s, 1, Len(s) - 1) IN
        IF \A i \in 0..(Len(in) - 1) : ~NeedsDecoding(At(in, i))
        THEN [b |-> b \o in, err |-> FALSE]
        ELSE LET first == CHOOSE i \in 0..(Len(in) - 1) :
                              /\ NeedsDecoding(At(in, i))
                              /\ \A j \in 0..(i - 1) : ~NeedsDecoding(At(in, j))
             IN UnquoteLoop(in, first, 0, b)

UnquoteString(s) ==
    IF Len(s) = 0 THEN [b |-> << >>, err |-> FALSE]
    ELSE IF At(s, 0) # chQuote /\ At(s, 0) # 39 THEN [b |-> << >>, err |-> TRUE]
    ELSE AppendUnquotedString(<< >>, s, At(s, 0))

(***************************************************************************)
(* document: rawString / AppendRawString                                   *)
(***************************************************************************)
MarkerCap == 64

\* cap(append(marker, '#')) for a marker of capacity cap: append keeps the
\* array while the marker fits and moves it to one of twice the capacity
\* when it does not
GrownCap(marker, cap) == IF Len(marker) + 1 > cap THEN 2 * cap ELSE cap

\* the marker loop with the capacity never growing
RECURSIVE RawMarkerMutant(_, _, _, _)
RawMarkerMutant(s, marker, i, cap) ==
    IF i >= cap THEN [marker |-> marker, ok |-> FALSE]
    ELSE IF ~Contains(s, marker) THEN [marker |-> marker, ok |-> TRUE]
    ELSE RawMarkerMutant(s, marker \o <<chHash>>, i + 1, cap)

\* the marker loop "for i := 0; i < cap(marker); i++": the marker after the
\* loop, and whether the loop ended by finding a marker that s does not
\* contain; cap(marker) is read anew on each turn
RECURSIVE RawMarker(_, _, _, _)
RawMarker(s, marker, i, cap) ==
    IF i >= cap THEN [marker |-> marker, ok |-> FALSE]
    ELSE IF ~Contains(s, marker) THEN [marker |-> marker, ok |-> TRUE]
    ELSE RawMarker(s, marker \o <<chHash>>, i + 1, GrownCap(marker, cap))

AppendRawString(b, s) ==
    LET m == RawMarker(s, <<chQuote>>, 0, MarkerCap) IN
    IF ~m.ok
    THEN m.marker \o <<chLowerR, chQuote, 105, 110, 118, 97, 108, 105, 100, chQuote>>
    ELSE b \o <<chLowerR>> \o Repeat(chHash, Len(m.marker) - 1) \o <<chQuote>>
           \o s \o m.marker

rawString(s) == AppendRawString(<< >>, s)

(***************************************************************************)
(* tokenizer: Token                                                        *)
(* A token is its ID, its Data and its Line (the position; Column is left  *)
(* out).  The field sd is a history field, not part of the Go struct: it   *)
(* records that the token was scanned while a '/-' marker was waiting for  *)
(* it, and it is copied into the Value built from the token.               *)
(***************************************************************************)
Token(id, data) == [ID |-> id, Data |-> data, Line |-> 0, sd |-> FALSE]

\* the zero Token, and what Token.Clear leaves behind
NoToken == Token("Unknown", << >>)

Valid(t) == t.ID # "Unknown"

\* tokenClasses: the classes of a token ID, in the order the table lists them
\* the classes with '}' taken for a terminator
tokenClassesMutant(id) ==
    CASE id = "Newline" -> <<"ClassTerminator", "ClassWhitespace", "ClassEndOfLine">>
      [] id = "Whitespace" -> <<"ClassWhitespace">>
      [] id \in {"MultiLineComment", "SingleLineComment"} -> <<"ClassComment">>
      [] id \in {"Decimal", "Hexadecimal", "Octal", "Binary", "SuffixedDecimal"} ->
            <<"ClassNumber", "ClassValue", "ClassNonStringValue">>
      [] id \in {"Boolean", "Null"} -> <<"ClassValue", "ClassNonStringValue">>
      [] id = "BareIdentifier" -> <<"ClassValue", "ClassIdentifier">>
      [] id \in {"RawString", "QuotedString"} ->
            <<"ClassValue", "ClassString", "ClassIdentifier">>
      [] id \in {"Semicolon", "BraceClose"} -> <<"ClassTerminator">>
      [] id = "EOF" -> <<"ClassTerminator", "ClassEndOfLine">>
      [] OTHER -> << >>

tokenClasses(id) ==
    CASE id = "Newline" -> <<"ClassTerminator", "ClassWhitespace", "ClassEndOfLine">>
      [] id = "Whitespace" -> <<"ClassWhitespace">>
      [] id \in {"MultiLineComment", "SingleLineComment"} -> <<"ClassComment">>
      [] id \in {"Decimal", "Hexadecimal", "Octal", "Binary", "SuffixedDecimal"} ->
            <<"ClassNumber", "ClassValue", "ClassNonStringValue">>
      [] id \in {"Boolean", "Null"} -> <<"ClassValue", "ClassNonStringValue">>
      [] id = "BareIdentifier" -> <<"ClassValue", "ClassIdentifier">>
      [] id \in {"RawString", "QuotedString"} ->
            <<"ClassValue", "ClassString", "ClassIdentifier">>
      [] id = "Semicolon" -> <<"ClassTerminator">>
      [] id = "EOF" -> <<"ClassTerminator", "ClassEndOfLine">>
      [] OTHER -> << >>

(***************************************************************************)
(* relaxed: Flags                                                          *)
(***************************************************************************)
NGINXSyntax == 1
YAMLTOMLAssignments == 2
MultiplierSuffixes == 4

\* (f & q) != 0 for a single-bit q
Permit(f, q) == (f \div q) % 2 = 1

(***************************************************************************)
(* document: Value, ValueFromToken                                         *)
(* Value.Value is the record [k, s, n, x]: k names the Go type held        *)
(* ("nil", "string", "int", "float", "bool", "suffixed"), s the bytes of a *)
(* string (or of the cleaned text of a float, or the Number of a suffixed  *)
(* decimal), n the integer (1/0 for a bool), x the Suffix.                 *)
(***************************************************************************)
GoNil == [k |-> "nil", s |-> << >>, n |-> 0, x |-> << >>]
GoString(s) == [k |-> "string", s |-> s, n |-> 0, x |-> << >>]
GoInt(n) == [k |-> "int", s |-> << >>, n |-> n, x |-> << >>]
GoFloat(s) == [k |-> "float", s |-> s, n |-> 0, x |-> << >>]
GoBool(b) == [k |-> "bool", s |-> << >>, n |-> IF b THEN 1 ELSE 0, x |-> << >>]
GoSuffixed(num, suf) == [k |-> "suffixed", s |-> num, n |-> 0, x |-> suf]

\* &Value{}
ZeroValue == [Type |-> << >>, Value |-> GoNil, Flag |-> "FlagNone", sd |-> FALSE]

IndexByte(b, c) ==
    IF \E i \in 1..Len(b) : b[i] = c
    THEN (CHOOSE i \in 1..Len(b) : b[i] = c /\ \A j \in 1..(i - 1) : b[j] # c) - 1
    ELSE -1

\* bytes.ReplaceAll(b, "_", "")
NotUnderscore(c) == c # 95

StripUnderscores(b) == SelectSeq(b, NotUnderscore)

\* the value of one digit of strconv.ParseInt, or -1
DigitValue(c) ==
    IF c >= 48 /\ c <= 57 THEN c - 48
    ELSE IF c >= 97 /\ c <= 122 THEN c - 97 + 10
    ELSE IF c >= 65 /\ c <= 90 THEN c - 65 + 10
    ELSE -1

RECURSIVE ParseUint(_, _)
ParseUint(b, base) ==
    IF b = << >> THEN 0
    ELSE ParseUint(SubSeq(b, 1, Len(b) - 1), base) * base + DigitValue(b[Len(b)])

\* Numbers of ten digits and more are held by their decimal digits, most
\* significant first, and computed with digit by digit.
\* ds (digits of base from, from index i on) divided by d: the quotient's
\* digits and the remainder
RECURSIVE LongDiv(_, _, _, _, _, _)
LongDiv(ds, from, d, i, r, q) ==
    IF r >= 0 /\ Len(q) >= 0 /\ i > Len(ds) THEN [q |-> q, r |-> r]
    ELSE LongDiv(ds, from, d, i + 1, (r * from + ds[i]) % d,
                 Append(q, (r * from + ds[i]) \div d))

\* how many digits of base to one division gives, and the divisor to^k,
\* the largest that keeps r * from + d below 1<<31
ChunkDigits(to) == IF to = 2 THEN 16 ELSE IF to = 8 THEN 5 ELSE 4

ChunkDivisor(to) == IF to = 2 THEN 65536 ELSE IF to = 8 THEN 32768
                    ELSE IF to = 10 THEN 10000 ELSE 65536

RECURSIVE PowerOf(_, _)
PowerOf(b, k) == IF k = 0 THEN 1 ELSE b * PowerOf(b, k - 1)

\* the k digits of r < to^k in base to
ChunkOf(r, to, k) == [j \in 1..k |-> (r \div PowerOf(to, k - j)) % to]

\* ds without its leading zeros
NoLeadingZeros(ds) ==
    IF \A i \in 1..Len(ds) : ds[i] = 0 THEN << >>
    ELSE SubSeq(ds, CHOOSE i \in 1..Len(ds) : ds[i] # 0 /\ \A j \in 1..(i - 1) : ds[j] = 0,
                Len(ds))

\* ds, digits of base from, taken k at a time from the right: the digits of
\* the same number in base from^k
RECURSIVE DigitsValue(_, _, _, _)
DigitsValue(ds, from, i, j) ==
    IF i > j THEN 0
    ELSE DigitsValue(ds, from, i, j - 1) * from + (IF j < 1 THEN 0 ELSE ds[j])

Grouped(ds, from, k) ==
    [g \in 1..((Len(ds) + k - 1) \div k) |->
        DigitsValue(ds, from, Len(ds) - k * ((Len(ds) + k - 1) \div k - g + 1) + 1,
                    Len(ds) - k * ((Len(ds) + k - 1) \div k - g))]

\* the digits of the number ds (digits of base from) in base to, a chunk
\* of digits for each division, with leading zeros
RECURSIVE ToBaseChunks(_, _, _)
ToBaseStep(qr, from, to) ==
    ToBaseChunks(qr.q, from, to) \o ChunkOf(qr.r, to, ChunkDigits(to))

ToBaseChunks(ds, from, to) ==
    IF \A i \in 1..Len(ds) : ds[i] = 0 THEN << >>
    ELSE ToBaseStep(LongDiv(ds, from, ChunkDivisor(to), 1, 0, << >>), from, to)

\* one of from and to is 10, so that a remainder times from^k stays below
\* 1<<31
ToBaseGrouped(ds, from, to) ==
    ToBaseChunks(Grouped(ds, from, ChunkDigits(from)),
                 PowerOf(from, ChunkDigits(from)), to)

\* the digits of the number ds (digits of base from) in base to, none for 0
ToBase(ds, from, to) == NoLeadingZeros(ToBaseGrouped(ds, from, to))

\* the decimal digits of the number ds (digits of base from), none for 0:
\* decimal digits are kept as they are, without their leading zeros
DecimalDigits(ds, from) ==
    IF from # 10 THEN ToBase(ds, from, 10) ELSE NoLeadingZeros(ds)

\* a < b for two numbers given by their digits without leading zeros
DigitsLess(a, b) ==
    \/ Len(a) < Len(b)
    \/ /\ Len(a) = Len(b)
       /\ \E i \in 1..Len(a) : a[i] < b[i] /\ \A j \in 1..(i - 1) : a[j] = b[j]

\* 1<<63 - 1, the largest int64
MaxInt64 == <<9, 2, 2, 3, 3, 7, 2, 0, 3, 6, 8, 5, 4, 7, 7, 5, 8, 0, 7>>

\* the first number that is held by its digits
Narrow == <<1, 0, 0, 0, 0, 0, 0, 0, 0, 0>>

\* -1<<63 <= n <= 1<<63 - 1 for n of magnitude dec
InInt64(neg, dec) ==
    ~DigitsLess(MaxInt64, dec) \/ (neg /\ dec = [MaxInt64 EXCEPT ![19] = 8])

\* the ASCII digits of the digits ds, "0" for none
DigitBytes(ds) == IF ds = << >> THEN <<48>> ELSE [i \in 1..Len(ds) |-> HexDigit(ds[i])]

\* an int64 of ten digits or more, and a *big.Int: s holds the decimal
\* digits of the magnitude and n is -1 for a negative number, 1 otherwise
GoWideInt(neg, dec) ==
    [k |-> "int", s |-> DigitBytes(dec), n |-> IF neg THEN -1 ELSE 1, x |-> << >>]

GoBigInt(neg, dec) ==
    [k |-> "big.Int", s |-> DigitBytes(dec), n |-> IF neg THEN -1 ELSE 1, x |-> << >>]

\* the integer of magnitude dec, ten digits or more, as parseNumber returns
\* it: the int64 of strconv.ParseInt, on ErrRange the *big.Int of SetString
WideInteger(neg, dec) ==
    IF InInt64(neg, dec) THEN GoWideInt(neg, dec) ELSE GoBigInt(neg, dec)

\* strconv.ParseInt(s, base, 64), and on ErrRange big.Int.SetString: the
\* integer whatever its size, or an error for an empty or malformed text
ParseInt(b, base) ==
    LET neg == Len(b) > 0 /\ b[1] = 45
        signed == Len(b) > 0 /\ b[1] \in {43, 45}
        digits == IF signed THEN Tail(b) ELSE b
        dec == DecimalDigits([i \in 1..Len(digits) |-> DigitValue(digits[i])], base) IN
    IF digits = << >> \/ \E i \in 1..Len(digits) :
                            DigitValue(digits[i]) < 0 \/ DigitValue(digits[i]) >= base
    THEN [v |-> GoNil, err |-> TRUE]
    ELSE IF DigitsLess(dec, Narrow)
    THEN [v |-> GoInt(IF neg THEN 0 - ParseUint(digits, base)
                              ELSE ParseUint(digits, base)),
          err |-> FALSE]
    ELSE [v |-> WideInteger(neg, dec), err |-> FALSE]

\* bytes.Trim(b, "0")
RECURSIVE TrimZeros(_)
TrimZeros(b) ==
    IF Len(b) > 0 /\ Head(b) = 48 THEN TrimZeros(Tail(b))
    ELSE IF Len(b) > 0 /\ b[Len(b)] = 48 THEN TrimZeros(SubSeq(b, 1, Len(b) - 1))
    ELSE b

isNonzeroSciNot(b) ==
    LET e == IF IndexByte(b, 101) # -1 THEN IndexByte(b, 101) ELSE IndexByte(b, 69)
        coe == TrimZeros(Slice(b, 0, e)) IN
    e # -1 /\ Len(coe) > 0 /\ ~(Len(coe) = 1 /\ coe[1] = 46)

\* the parts of a floating point text: its sign, its significant digits
\* (none for zero) and the power of ten of the first of them
FloatParts(b) ==
    LET body == IF Len(b) > 0 /\ b[1] \in {43, 45} THEN Tail(b) ELSE b
        e == IF IndexByte(body, 101) # -1 THEN IndexByte(body, 101) ELSE IndexByte(body, 69)
        coe == IF e = -1 THEN body ELSE Slice(body, 0, e)
        ex == IF e = -1 THEN <<48>> ELSE Slice(body, e + 1, Len(body))
        exp == IF ex[1] = 45 THEN 0 - ParseUint(Tail(ex), 10)
               ELSE IF ex[1] = 43 THEN ParseUint(Tail(ex), 10)
               ELSE ParseUint(ex, 10)
        dot == IndexByte(coe, 46)
        whole == IF dot = -1 THEN coe ELSE Slice(coe, 0, dot)
        all == whole \o (IF dot = -1 THEN << >> ELSE Slice(coe, dot + 1, Len(coe)))
        sig == TrimZeros(all)
        lead == IF sig = << >> THEN 0
                ELSE (CHOOSE i \in 1..Len(all) : all[i] # 48 /\ \A j \in 1..(i - 1) : all[j] = 48) - 1
    IN [neg |-> Len(b) > 0 /\ b[1] = 45, sig |-> sig, e10 |-> exp + Len(whole) - 1 - lead]

\* a *big.Float made by big.NewFloat(0), of 53 bits of precision: s holds
\* the significant digits it was set from, n the power of ten of the first
\* of them, x the sign
GoBigFloat(p) ==
    [k |-> "big.Float", s |-> p.sig, n |-> p.e10, x |-> IF p.neg THEN <<45>> ELSE << >>]

\* the float branch of parseNumber: strconv.ParseFloat returns ErrRange
\* above 1.797e308 and 0 below 4.9e-324 (texts between 1e308 and 1e309 and
\* between 1e-325 and 1e-323 are not told apart here)
FloatOf(b, p) ==
    IF p.sig # << >> /\ p.e10 > 308 THEN GoBigFloat(p)
    ELSE IF (p.sig = << >> \/ p.e10 < 0 - 324) /\ isNonzeroSciNot(b) THEN GoBigFloat(p)
    ELSE GoFloat(b)

\* parseNumber; a float64 is kept as its cleaned text
parseNumber(b0, base) ==
    LET b == StripUnderscores(IF base # 10 THEN Slice(b0, 2, Len(b0)) ELSE b0)
        float == IndexByte(b, 46) # -1
                 \/ (base = 10 /\ (IndexByte(b, 101) # -1 \/ IndexByte(b, 69) # -1))
    IN IF float
       THEN IF base # 10 THEN [v |-> GoNil, err |-> TRUE]
            ELSE [v |-> FloatOf(b, FloatParts(b)), err |-> FALSE]
       ELSE ParseInt(b, base)

\* a string and an error as the pair ValueFromToken assigns from
StringResult(u) == [v |-> GoString(u.b), err |-> u.err]

parseQuotedString(b) == StringResult(UnquoteString(b))

parseRawString(b) ==
    LET p == IndexByte(b, chQuote)
        b1 == Slice(b, p + 1, Len(b))
    IN [v |-> GoString(Slice(b1, 0, Len(b1) - p)), err |-> FALSE]

\* the loop of ParseSuffixedDecimal from index i
RECURSIVE SuffixScan(_, _, _, _)
SuffixScan(b, i, suffixIndex, duration) ==
    IF i >= Len(b) THEN [suffixIndex |-> suffixIndex, duration |-> duration, err |-> FALSE]
    ELSE LET c == At(b, i) IN
        IF (c >= 48 /\ c <= 57) \/ c = 46 THEN SuffixScan(b, i + 1, suffixIndex, duration)
        ELSE IF c \in {104, 115, 117, 181} THEN
            SuffixScan(b, i + 1, IF suffixIndex = -1 THEN i ELSE suffixIndex, TRUE)
        ELSE IF c \in {107, 75, 109, 77, 103, 71, 116, 84, 98, 66} THEN
            IF suffixIndex = -1 THEN SuffixScan(b, i + 1, i, duration)
            ELSE SuffixScan(b, i + 1, suffixIndex, duration \/ c # 98)
        ELSE [suffixIndex |-> suffixIndex, duration |-> duration, err |-> TRUE]

ParseSuffixedDecimal(b) ==
    LET r == SuffixScan(b, 0, -1, FALSE) IN
    IF r.err THEN [v |-> GoSuffixed(<< >>, << >>), err |-> TRUE]
    ELSE IF r.suffixIndex = 0 THEN [v |-> GoSuffixed(<< >>, << >>), err |-> TRUE]
    ELSE IF r.duration THEN [v |-> GoSuffixed(<< >>, b), err |-> FALSE]
    ELSE IF r.suffixIndex = -1 THEN [v |-> GoSuffixed(b, << >>), err |-> FALSE]
    ELSE [v |-> GoSuffixed(Slice(b, 0, r.suffixIndex), Slice(b, r.suffixIndex, Len(b))),
          err |-> FALSE]

\* ValueFromToken: the Value of a token and whether an error is returned
ValueFromToken(t) ==
    LET mk(r, flag) == [v |-> [Type |-> << >>, Value |-> r.v, Flag |-> flag, sd |-> t.sd],
                        err |-> r.err]
        ok(x) == [v |-> x, err |-> FALSE]
    IN CASE t.ID = "QuotedString" -> mk(parseQuotedString(t.Data), "FlagQuoted")
         [] t.ID = "BareIdentifier" -> mk(ok(GoString(t.Data)), "FlagNone")
         [] t.ID = "Binary" -> mk(parseNumber(t.Data, 2), "FlagBinary")
         [] t.ID = "RawString" -> mk(parseRawString(t.Data), "FlagRaw")
         [] t.ID = "Decimal" -> mk(parseNumber(t.Data, 10), "FlagNone")
         [] t.ID = "SuffixedDecimal" -> mk(ParseSuffixedDecimal(t.Data), "FlagNone")
         [] t.ID = "Octal" -> mk(parseNumber(t.Data, 8), "FlagOctal")
         [] t.ID = "Hexadecimal" -> mk(parseNumber(t.Data, 16), "FlagHexadecimal")
         [] t.ID = "Boolean" -> mk(ok(GoBool(t.Data[1] = 116)), "FlagNone")
         [] t.ID = "Null" -> mk(ok(GoNil), "FlagNone")
         [] OTHER -> mk(ok(GoNil), "FlagNone")

(***************************************************************************)
(* document: Properties (properties_ordered.go) and Node                   *)
(* Nodes live in a heap c.nodes; a *Node is an index into it.  Name is a   *)
(* sequence of at most one Value (the pointer may be nil).                 *)
(***************************************************************************)
NoProperties == [order |-> << >>, props |-> [k \in {} |-> ZeroValue]]

\* Properties.Add with the name appended to the order whether or not the
\* key is there already
PropertiesAddMutant(p, name, val) ==
    [order |-> Append(p.order, name),
     props |-> [k \in (DOMAIN p.props) \cup {name} |->
                    IF k = name THEN val ELSE p.props[k]]]

\* Properties.Add
PropertiesAdd(p, name, val) ==
    [order |-> IF name \in DOMAIN p.props THEN p.order ELSE Append(p.order, name),
     props |-> [k \in (DOMAIN p.props) \cup {name} |->
                    IF k = name THEN val ELSE p.props[k]]]

NewNode == [Name |-> << >>, Type |-> << >>, Arguments |-> << >>,
            Properties |-> NoProperties, Children |-> << >>]

\* Node.AddNode on the node at index parent of the heap
AddNode(nodes, parent, child) ==
    [nodes EXCEPT ![parent].Children = Append(@, child)]

\* Value.value under voNoQuotes|voUseNumericFlags for a string: the string
\* itself (a property key is always built from a string Value)
ValueString(v) == v.Value.s

\* "if typeAnnot.Valid() { v.Type = TypeAnnotation(typeAnnot.Data) }"
WithType(v, typeAnnot) ==
    IF Valid(typeAnnot) THEN [v EXCEPT !.Type = typeAnnot.Data] ELSE v

\* Node.SetNameToken on node n of context c, r being ValueFromToken(t)
SetNameValue(c, n, r) ==
    IF r.err THEN [c EXCEPT !.err = "value from token"]
    ELSE [c EXCEPT !.nodes[n].Name = <<r.v>>]

SetNameToken(c, n, t) == SetNameValue(c, n, ValueFromToken(t))

\* Node.AddArgumentToken on node n of context c, r being ValueFromToken(t)
AddArgumentValue(c, n, r, typeAnnot) ==
    IF r.err THEN [c EXCEPT !.err = "value from token"]
    ELSE [c EXCEPT !.nodes[n].Arguments = Append(@, WithType(r.v, typeAnnot))]

AddArgumentToken(c, n, t, typeAnnot) ==
    AddArgumentValue(c, n, ValueFromToken(t), typeAnnot)

\* Node.AddPropertyToken on node n of context c, nt and vt being
\* ValueFromToken of the name and of the value; the property carries the
\* history field of its key as well as that of its value
AddPropertyValues(c, n, nt, vt, typeAnnot) ==
    IF nt.err \/ vt.err THEN [c EXCEPT !.err = "value from token"]
    ELSE [c EXCEPT !.nodes[n].Properties =
              PropertiesAdd(@, ValueString(nt.v),
                            [WithType(vt.v, typeAnnot) EXCEPT !.sd = vt.v.sd \/ nt.v.sd])]

AddPropertyToken(c, n, name, value, typeAnnot) ==
    AddPropertyValues(c, n, ValueFromToken(name), ValueFromToken(value), typeAnnot)

(***************************************************************************)
(* parser: ParseContext (context.go)                                       *)
(* A context is a record of the struct's fields, the node heap, and err,   *)
(* the error a handler returns ("nil" for none).                           *)
(***************************************************************************)
addNode(c) ==
    LET n == Len(c.nodes) + 1
        heap == Append(c.nodes, NewNode) IN
    IF Len(c.node) > 0
    THEN [c EXCEPT !.nodes = AddNode(heap, c.node[Len(c.node)], n),
                   !.node = Append(@, n)]
    ELSE [c EXCEPT !.nodes = heap, !.doc = Append(@, n), !.node = Append(@, n)]

\* createNode with the node hung into the tree as addNode does
createNodeMutant(c) == addNode(c)

createNode(c) ==
    [c EXCEPT !.nodes = Append(@, NewNode), !.node = Append(@, Len(c.nodes) + 1)]

\* the first node made, whatever the node stack holds
currentNodeMutant(c) == 1

currentNode(c) == c.node[Len(c.node)]

popNode(c) ==
    IF Len(c.node) = 0 THEN [c EXCEPT !.err = "node stack empty"]
    ELSE [c EXCEPT !.node = SubSeq(@, 1, Len(@) - 1)]

pushState(c, newState) ==
    [c EXCEPT !.states = Append(@, c.state), !.state = newState]

popState(c) ==
    IF Len(c.states) = 0 THEN [c EXCEPT !.err = "state stack empty"]
    ELSE [c EXCEPT !.state = c.states[Len(c.states)],
                   !.states = SubSeq(@, 1, Len(@) - 1)]

\* "if err != nil { return ..., err }": the steps below leave a context that
\* already carries an error as it is
ThenPopNode(c) == IF c.err # "nil" THEN c ELSE popNode(c)

\* popNodeAndState that leaves the node on its stack
popNodeAndStateMutant(c) == popState(c)

popNodeAndState(c) == ThenPopNode(popState(c))

(***************************************************************************)
(* parser: stateTransitions (transitions.go)                               *)
(* One operator per entry of the table, named state_token; each maps the   *)
(* context and the token to the context after the handler.  ParseComments  *)
(* is not an option of ParseContextOptions, so the comment-capturing       *)
(* branches are not taken.                                                 *)
(***************************************************************************)
Unexpected(c) == [c EXCEPT !.err = "unexpected"]

ExpectedValueAfterType(c) == [c EXCEPT !.err = "expected value after type"]

\* "c.typeAnnot.Clear(); c.ident.Clear()"
ClearHeld(c) == [c EXCEPT !.typeAnnot = NoToken, !.ident = NoToken]

\* the statements that follow an "if err != nil { return err }": each
\* leaves a context that already carries an error as it is
ThenClearHeld(c) == IF c.err # "nil" THEN c ELSE ClearHeld(c)

ThenSetState(c, state) == IF c.err # "nil" THEN c ELSE [c EXCEPT !.state = state]

ThenPushState(c, state) == IF c.err # "nil" THEN c ELSE pushState(c, state)

ThenPopNodeAndState(c) == IF c.err # "nil" THEN c ELSE popNodeAndState(c)

ThenHold(c, t) == IF c.err # "nil" THEN c ELSE [c EXCEPT !.ident = t]

ThenIgnoreNextArgProp(c) ==
    IF c.err # "nil" THEN c ELSE [c EXCEPT !.ignoreNextArgProp = TRUE]

\* "if c.typeAnnot.Valid() { node.Type = ...; c.typeAnnot.Clear() }" and
\* "c.pushState(stateNode)" of a node declaration
ThenDeclare(c) ==
    IF c.err # "nil" THEN c
    ELSE IF Valid(c.typeAnnot)
    THEN pushState([c EXCEPT !.nodes[currentNode(c)].Type = c.typeAnnot.Data,
                             !.typeAnnot = NoToken], "stateNode")
    ELSE pushState(c, "stateNode")

\* "node.SetNameToken(t)" on the node just made
NameCurrentNode(c, t) == SetNameToken(c, currentNode(c), t)

\* "if c.ignoreNextArgProp { c.ignoreNextArgProp = false } else if err :=
\*  c.currentNode().AddArgumentToken(tok, c.typeAnnot) ..."
AddOrIgnoreArgument(c, tok) ==
    IF c.ignoreNextArgProp THEN [c EXCEPT !.ignoreNextArgProp = FALSE]
    ELSE AddArgumentToken(c, currentNode(c), tok, c.typeAnnot)

\* "if c.ignoreNextArgProp || c.ignoreChildren > 0 { ... c.ignoreChildren++ }"
CountIgnoredChildren(c) ==
    IF c.err # "nil" THEN c
    ELSE IF c.ignoreNextArgProp \/ c.ignoreChildren > 0
    THEN [c EXCEPT !.ignoreNextArgProp = FALSE, !.ignoreChildren = @ + 1]
    ELSE c

stateDocument_Whitespace(c, t) == IF Valid(c.typeAnnot) THEN Unexpected(c) ELSE c

stateDocument_ClassIdentifier(c, t) ==
    ThenDeclare(NameCurrentNode(IF c.ignoreNextNode
                                THEN [createNode(c) EXCEPT !.ignoreNextNode = FALSE]
                                ELSE addNode(c), t))

stateDocument_ParensOpen(c, t) == pushState(c, "stateTypeAnnot")

stateDocument_ClassTerminator(c, t) ==
    IF Valid(c.typeAnnot) THEN ExpectedValueAfterType(c) ELSE c

stateDocument_ClassComment(c, t) == IF Valid(c.typeAnnot) THEN Unexpected(c) ELSE c

stateDocument_TokenComment(c, t) == [c EXCEPT !.ignoreNextNode = TRUE]

stateChildren_Whitespace(c, t) == IF Valid(c.typeAnnot) THEN Unexpected(c) ELSE c

stateChildren_ClassComment(c, t) == IF Valid(c.typeAnnot) THEN Unexpected(c) ELSE c

stateChildren_TokenComment(c, t) == [c EXCEPT !.ignoreNextNode = TRUE]

stateChildren_ParensOpen(c, t) == pushState(c, "stateTypeAnnot")

stateChildren_Newline(c, t) == c

stateChildren_ClassIdentifier(c, t) ==
    ThenDeclare(NameCurrentNode(IF c.ignoreNextNode \/ c.ignoreChildren > 0
                                THEN [createNode(c) EXCEPT !.ignoreNextNode = FALSE]
                                ELSE addNode(c), t))

stateChildren_BraceClose(c, t) ==
    popState(IF c.ignoreChildren > 0 THEN [c EXCEPT !.ignoreChildren = @ - 1] ELSE c)

stateTypeAnnot_BareIdentifier(c, t) ==
    [c EXCEPT !.typeAnnot = t, !.state = "stateTypeDone"]

stateTypeAnnot_ClassString(c, t) ==
    [c EXCEPT !.typeAnnot = t, !.state = "stateTypeDone"]

stateTypeDone_ParensClose(c, t) == popState(c)

stateNode_Whitespace(c, t) == [c EXCEPT !.state = "stateNodeParams"]

stateNode_ClassTerminator(c, t) == IF c.continuation THEN c ELSE popNodeAndState(c)

stateNode_EqualsMutant(c, t) == [c EXCEPT !.state = "stateNodeParams"]

stateNode_Equals(c, t) ==
    IF Permit(c.opts.RelaxedNonCompliant, YAMLTOMLAssignments)
    THEN [c EXCEPT !.state = "stateNodeParams"]
    ELSE Unexpected(c)

stateNodeParams_Whitespace(c, t) == IF Valid(c.typeAnnot) THEN Unexpected(c) ELSE c

stateNodeParams_Equals(c, t) ==
    IF /\ Permit(c.opts.RelaxedNonCompliant, YAMLTOMLAssignments)
       /\ ~Valid(c.typeAnnot)
       /\ ~Valid(c.ident)
    THEN c
    ELSE Unexpected(c)

stateNodeParams_TokenComment(c, t) == [c EXCEPT !.ignoreNextArgProp = TRUE]

stateNodeParams_MultiLineComment(c, t) ==
    IF Valid(c.typeAnnot) THEN Unexpected(c) ELSE c

stateNodeParams_SingleLineComment(c, t) == [c EXCEPT !.state = "stateNodeEnd"]

stateNodeParams_Continuation(c, t) == [c EXCEPT !.continuation = TRUE]

stateNodeParams_ParensOpen(c, t) == pushState(c, "stateTypeAnnot")

stateNodeParams_BareIdentifier(c, t) ==
    IF Permit(c.opts.RelaxedNonCompliant, NGINXSyntax)
    THEN [c EXCEPT !.ident = t, !.state = "stateArgProp"]
    ELSE [c EXCEPT !.ident = t, !.state = "stateProperty"]

\* the type annotation is cleared before the argument is added
stateNodeParams_SuffixedDecimal(c, t) ==
    ThenSetState(AddOrIgnoreArgument(ClearHeld(c), t), "stateNodeParams")

stateNodeParams_ClassString(c, t) ==
    [c EXCEPT !.ident = t, !.state = "stateArgProp"]

\* the handler returns after saving the token; the code after its return
\* is unreachable
stateNodeParams_ClassNonStringValue(c, t) ==
    [c EXCEPT !.ident = t, !.state = "stateArgProp"]

stateNodeParams_BraceOpen(c, t) == pushState(CountIgnoredChildren(c), "stateChildren")

\* the entry with the continuation not looked at
stateNodeParams_ClassTerminatorMutant(c, t) ==
    IF Valid(c.typeAnnot) THEN ExpectedValueAfterType(c) ELSE popNodeAndState(c)

stateNodeParams_ClassTerminator(c, t) ==
    IF c.continuation THEN c
    ELSE IF Valid(c.typeAnnot) THEN ExpectedValueAfterType(c)
    ELSE popNodeAndState(c)

\* (a single-line comment runs up to the newline, so no scanned input
\* brings whitespace to this state)
stateNodeEnd_Whitespace(c, t) == c

stateNodeEnd_ClassEndOfLine(c, t) ==
    IF c.continuation THEN [c EXCEPT !.state = "stateNodeParams"]
    ELSE popNodeAndState(c)

stateProperty_Equals(c, t) ==
    IF Valid(c.typeAnnot) THEN Unexpected(c)
    ELSE [c EXCEPT !.state = "statePropertyValue"]

stateArgProp_TokenComment(c, t) ==
    ThenIgnoreNextArgProp(ThenClearHeld(AddOrIgnoreArgument(c, c.ident)))

stateArgProp_BraceOpen(c, t) ==
    ThenPushState(CountIgnoredChildren(
                      IF Valid(c.ident)
                      THEN ThenClearHeld(AddOrIgnoreArgument(c, c.ident))
                      ELSE c),
                  "stateChildren")

stateArgProp_Equals(c, t) ==
    IF Valid(c.typeAnnot)
       \/ c.ident.ID \notin {"BareIdentifier", "QuotedString", "RawString"}
    THEN Unexpected(c)
    ELSE [c EXCEPT !.state = "statePropertyValue"]

stateArgProp_Whitespace(c, t) ==
    ThenSetState(ThenClearHeld(AddOrIgnoreArgument(c, c.ident)), "stateNodeParams")

\* the entry with the held value dropped at the end of the node
stateArgProp_ClassTerminatorMutant(c, t) ==
    ThenPopNodeAndState(ClearHeld([c EXCEPT !.ignoreNextArgProp = FALSE]))

stateArgProp_ClassTerminator(c, t) ==
    ThenPopNodeAndState(IF Valid(c.ident)
                        THEN ThenClearHeld(AddOrIgnoreArgument(c, c.ident))
                        ELSE c)

stateArgProp_ClassValue(c, t) ==
    ThenHold(ThenClearHeld(AddOrIgnoreArgument(c, c.ident)), t)

statePropertyValue_ParensOpen(c, t) == pushState(c, "stateTypeAnnot")

\* the entry with the value committed as an argument
statePropertyValue_ClassValueMutant(c, t) ==
    ThenSetState(ThenClearHeld(AddOrIgnoreArgument(c, t)), "stateNode")

statePropertyValue_ClassValue(c, t) ==
    ThenSetState(ThenClearHeld(
                     IF c.ignoreNextArgProp THEN [c EXCEPT !.ignoreNextArgProp = FALSE]
                     ELSE AddPropertyToken(c, currentNode(c), c.ident, t, c.typeAnnot)),
                 "stateNode")

\* the keys of stateTransitions[state]
TransitionKeys(state) ==
    CASE state = "stateDocument" ->
            {"Whitespace", "ClassIdentifier", "ParensOpen", "ClassTerminator",
             "ClassComment", "TokenComment"}
      [] state = "stateChildren" ->
            {"Whitespace", "ClassComment", "TokenComment", "ParensOpen", "Newline",
             "ClassIdentifier", "BraceClose"}
      [] state = "stateTypeAnnot" -> {"BareIdentifier", "ClassString"}
      [] state = "stateTypeDone" -> {"ParensClose"}
      [] state = "stateNode" -> {"Whitespace", "ClassTerminator", "Equals"}
      [] state = "stateNodeParams" ->
            {"Whitespace", "Equals", "TokenComment", "MultiLineComment",
             "SingleLineComment", "Continuation", "ParensOpen", "BareIdentifier",
             "SuffixedDecimal", "ClassString", "ClassNonStringValue", "BraceOpen",
             "ClassTerminator"}
      [] state = "stateNodeEnd" -> {"Whitespace", "ClassEndOfLine"}
      [] state = "stateProperty" -> {"Equals"}
      [] state = "stateArgProp" ->
            {"TokenComment", "BraceOpen", "Equals", "Whitespace", "ClassTerminator",
             "ClassValue"}
      [] state = "statePropertyValue" -> {"ParensOpen", "ClassValue"}
      [] OTHER -> {}

\* stateTransitions[state][key](c, t)
Transition(state, key, c, t) ==
    CASE state = "stateDocument" ->
            (CASE key = "Whitespace" -> stateDocument_Whitespace(c, t)
               [] key = "ClassIdentifier" -> stateDocument_ClassIdentifier(c, t)
               [] key = "ParensOpen" -> stateDocument_ParensOpen(c, t)
               [] key = "ClassTerminator" -> stateDocument_ClassTerminator(c, t)
               [] key = "ClassComment" -> stateDocument_ClassComment(c, t)
               [] key = "TokenComment" -> stateDocument_TokenComment(c, t))
      [] state = "stateChildren" ->
            (CASE key = "Whitespace" -> stateChildren_Whitespace(c, t)
               [] key = "ClassComment" -> stateChildren_ClassComment(c, t)
               [] key = "TokenComment" -> stateChildren_TokenComment(c, t)
               [] key = "ParensOpen" -> stateChildren_ParensOpen(c, t)
               [] key = "Newline" -> stateChildren_Newline(c, t)
               [] key = "ClassIdentifier" -> stateChildren_ClassIdentifier(c, t)
               [] key = "BraceClose" -> stateChildren_BraceClose(c, t))
      [] state = "stateTypeAnnot" ->
            (CASE key = "BareIdentifier" -> stateTypeAnnot_BareIdentifier(c, t)
               [] key = "ClassString" -> stateTypeAnnot_ClassString(c, t))
      [] state = "stateTypeDone" -> stateTypeDone_ParensClose(c, t)
      [] state = "stateNode" ->
            (CASE key = "Whitespace" -> stateNode_Whitespace(c, t)
               [] key = "ClassTerminator" -> stateNode_ClassTerminator(c, t)
               [] key = "Equals" -> stateNode_Equals(c, t))
      [] state = "stateNodeParams" ->
            (CASE key = "Whitespace" -> stateNodeParams_Whitespace(c, t)
               [] key = "Equals" -> stateNodeParams_Equals(c, t)
               [] key = "TokenComment" -> stateNodeParams_TokenComment(c, t)
               [] key = "MultiLineComment" -> stateNodeParams_MultiLineComment(c, t)
               [] key = "SingleLineComment" -> stateNodeParams_SingleLineComment(c, t)
               [] key = "Continuation" -> stateNodeParams_Continuation(c, t)
               [] key = "ParensOpen" -> stateNodeParams_ParensOpen(c, t)
               [] key = "BareIdentifier" -> stateNodeParams_BareIdentifier(c, t)
               [] key = "SuffixedDecimal" -> stateNodeParams_SuffixedDecimal(c, t)
               [] key = "ClassString" -> stateNodeParams_ClassString(c, t)
               [] key = "ClassNonStringValue" ->
                      stateNodeParams_ClassNonStringValue(c, t)
               [] key = "BraceOpen" -> stateNodeParams_BraceOpen(c, t)
               [] key = "ClassTerminator" -> stateNodeParams_ClassTerminator(c, t))
      [] state = "stateNodeEnd" ->
            (CASE key = "Whitespace" -> stateNodeEnd_Whitespace(c, t)
               [] key = "ClassEndOfLine" -> stateNodeEnd_ClassEndOfLine(c, t))
      [] state = "stateProperty" -> stateProperty_Equals(c, t)
      [] state = "stateArgProp" ->
            (CASE key = "TokenComment" -> stateArgProp_TokenComment(c, t)
               [] key = "BraceOpen" -> stateArgProp_BraceOpen(c, t)
               [] key = "Equals" -> stateArgProp_Equals(c, t)
               [] key = "Whitespace" -> stateArgProp_Whitespace(c, t)
               [] key = "ClassTerminator" -> stateArgProp_ClassTerminator(c, t)
               [] key = "ClassValue" -> stateArgProp_ClassValue(c, t))
      [] state = "statePropertyValue" ->
            (CASE key = "ParensOpen" -> statePropertyValue_ParensOpen(c, t)
               [] key = "ClassValue" -> statePropertyValue_ClassValue(c, t))

(***************************************************************************)
(* parser: Parser (parser.go is not part of the sources at hand; New-      *)
(* ContextOptions and Parse follow the specification's description of the  *)
(* grammar state machine)                                                  *)
(***************************************************************************)
NoErr == [msg |-> "nil", Line |-> 0]

\* an error that carries the position of the token being parsed
ParseError(msg, t) == [msg |-> msg, Line |-> t.Line]

\* "Document is initial": an empty document, empty stacks, nothing held
NewContextOptions(opts) ==
    [doc |-> << >>, nodes |-> << >>, states |-> << >>, state |-> "stateDocument",
     node |-> << >>, ident |-> NoToken, typeAnnot |-> NoToken,
     continuation |-> FALSE, ignoreNextNode |-> FALSE, ignoreNextArgProp |-> FALSE,
     ignoreChildren |-> 0, opts |-> opts, err |-> "nil"]

\* the key under which state has an entry for token ID id: the ID itself,
\* else the first of its classes that has one, else "none"
RECURSIVE FirstClassKey(_, _)
FirstClassKey(keys, classes) ==
    IF classes = << >> THEN "none"
    ELSE IF Head(classes) \in keys THEN Head(classes)
    ELSE FirstClassKey(keys, Tail(classes))

LookupTransition(state, id) ==
    IF id \in TransitionKeys(state) THEN id
    ELSE FirstClassKey(TransitionKeys(state), tokenClasses(id))

\* "parsing ends cleanly when the token stream is exhausted while in
\*  Document state with no open node/type-annotation context"
EndsCleanly(c) ==
    /\ c.state = "stateDocument"
    /\ c.states = << >>
    /\ c.node = << >>
    /\ ~Valid(c.typeAnnot)

\* Parser.Parse: the context after the token and the error returned.
\* A (state, token) without a table entry is a parse error; a handler's
\* error is returned with the token's position; a newline ends a pending
\* line continuation; the end of the stream must end cleanly.
ParseAtEnd(c2, t) ==
    IF t.ID = "EOF" /\ ~EndsCleanly(c2)
    THEN [c |-> c2, err |-> ParseError("unexpected end of input", t)]
    ELSE [c |-> c2, err |-> NoErr]

ParseAfter(c1, t) ==
    IF c1.err # "nil"
    THEN [c |-> [c1 EXCEPT !.err = "nil"], err |-> ParseError(c1.err, t)]
    ELSE ParseAtEnd(IF t.ID = "Newline" THEN [c1 EXCEPT !.continuation = FALSE] ELSE c1,
                    t)

ParseKey(c, t, key) ==
    IF key = "none" THEN [c |-> c, err |-> ParseError("unexpected token", t)]
    ELSE ParseAfter(Transition(c.state, key, c, t), t)

Parse(c, t) == ParseKey(c, t, LookupTransition(c.state, t.ID))

(***************************************************************************)
(* kdl.parse (kdl.go, unmarshal.go): the loop that feeds the scanner's     *)
(* tokens to the parser.                                                   *)
(*   c       the ParseContext                                              *)
(*   token   Scanner.token, the token of the last successful Scan          *)
(*   scanner the input as the Scanner sees it: at is "open" (the next Scan *)
(*           delivers a token or fails) or "eof" (the EOF token has been   *)
(*           delivered; Scan returns false with a nil error), vocabulary   *)
(*           the tokens the input is made of, left the number of tokens    *)
(*           still to come                                                 *)
(*   pc      where parse is: "scan" (in the loop) or "done" (returned)     *)
(*   ret     what parse returned: whether a document, and the error        *)
(*   g       history of the input, kept for stating properties             *)
(* The callers of the value codec and of the generator have their own      *)
(* state, codec and rt, described further down; kdl.parse leaves it alone. *)
(***************************************************************************)
VARIABLES c, token, scanner, pc, ret, g, codec, rt,
          preload, stream, lab, staticScan, calls

parserVars == <<c, token, scanner, pc, ret, g>>

\* the scanners that are driven on their own, without a parser: the two
\* scanners of one input, what their caller has noted, and the scanner
\* that ScanOne shares among its callers
tokenizerVars == <<preload, stream, lab, staticScan, calls>>

vars == <<c, token, scanner, pc, ret, g, codec, rt,
          preload, stream, lab, staticScan, calls>>

\* no scanner is driven on its own
TokenizerIdle ==
    /\ preload = << >>
    /\ stream = << >>
    /\ lab = [phase |-> "idle"]
    /\ staticScan = << >>
    /\ calls = << >>

\* no call of the codec is under way
NoCodec == [phase |-> "idle", s |-> << >>, out |-> << >>, err |-> FALSE]

\* no round trip is under way
NoRoundTrip == [phase |-> "idle", input |-> << >>, first |-> << >>, second |-> << >>]

\* the tokens of an input that uses the whole grammar
TokenAlphabet ==
    {Token("Whitespace", <<32>>), Token("Newline", <<10>>), Token("Semicolon", <<59>>),
     Token("EOF", << >>), Token("SingleLineComment", <<47, 47>>),
     Token("MultiLineComment", <<47, 42, 42, 47>>), Token("TokenComment", <<47, 45>>),
     Token("BraceOpen", <<123>>), Token("BraceClose", <<125>>),
     Token("ParensOpen", <<40>>), Token("ParensClose", <<41>>),
     Token("Equals", <<61>>), Token("Continuation", <<92>>),
     Token("BareIdentifier", <<97>>),
     Token("QuotedString", <<34, 115, 34>>), Token("QuotedString", <<34, 92, 117, 49, 34>>),
     Token("Decimal", <<49>>), Token("SuffixedDecimal", <<49, 107>>)}

\* the tokens of an input made of nodes, arguments, properties, children
\* blocks and '/-' markers only
ElisionAlphabet ==
    {Token("Whitespace", <<32>>), Token("Newline", <<10>>), Token("EOF", << >>),
     Token("TokenComment", <<47, 45>>), Token("BraceOpen", <<123>>),
     Token("BraceClose", <<125>>), Token("Equals", <<61>>),
     Token("BareIdentifier", <<97>>), Token("QuotedString", <<34, 115, 34>>),
     Token("Decimal", <<49>>)}

\* the tokens of an input made of one node with properties and arguments: the
\* keys a and b, bare or quoted, and the values 1, 2 and 3
PropertiesAlphabet ==
    {Token("Whitespace", <<32>>), Token("EOF", << >>), Token("Equals", <<61>>),
     Token("BareIdentifier", <<97>>), Token("BareIdentifier", <<98>>),
     Token("QuotedString", <<34, 97, 34>>),
     Token("Decimal", <<49>>), Token("Decimal", <<50>>), Token("Decimal", <<51>>)}

\* the relaxed flags a caller may set
RelaxedOptions == {0, NGINXSyntax + YAMLTOMLAssignments + MultiplierSuffixes}

\* the number of arguments and properties held by the nodes of the heap
RECURSIVE CountItems(_)
CountItems(nodes) ==
    IF nodes = << >> THEN 0
    ELSE Len(Head(nodes).Arguments) + Len(Head(nodes).Properties.order)
         + CountItems(Tail(nodes))

\* the number of type annotations held by the values of a sequence
RECURSIVE CountTyped(_)
CountTyped(values) ==
    IF values = << >> THEN 0
    ELSE (IF Head(values).Type # << >> THEN 1 ELSE 0) + CountTyped(Tail(values))

\* the number of type annotations held by the nodes of the heap
RECURSIVE CountAnnots(_)
CountAnnots(nodes) ==
    IF nodes = << >> THEN 0
    ELSE LET n == Head(nodes) IN
         (IF n.Type # << >> THEN 1 ELSE 0) + CountTyped(n.Arguments)
         + CountTyped([i \in 1..Len(n.Properties.order) |->
                          n.Properties.props[n.Properties.order[i]]])
         + CountAnnots(Tail(nodes))

WithinBounds(cx) ==
    /\ Len(cx.nodes) <= MaxNodes
    /\ Len(cx.states) <= MaxDepth
    /\ CountItems(cx.nodes) <= MaxItems
    /\ CountAnnots(cx.nodes) <= MaxAnnots

ParamStates == {"stateNodeParams", "stateArgProp"}

NodeStates == {"stateDocument", "stateChildren"}

IsValueToken(id) ==
    id \in {"BareIdentifier", "QuotedString", "RawString", "Decimal", "Hexadecimal",
            "Octal", "Binary", "SuffixedDecimal", "Boolean", "Null"}

IsNameToken(id) == id \in {"BareIdentifier", "QuotedString", "RawString"}

\* the token as scanned in the current state: the value that starts an
\* argument or property while a '/-' marker is waiting carries the marker
Stamp(t, ln) ==
    [t EXCEPT !.Line = ln,
              !.sd = c.state \in ParamStates /\ IsValueToken(t.ID) /\ g.pendItem]

\* the history after token t took context c to context c2
History(t, c2) ==
    LET new == Len(c2.nodes) > Len(c.nodes)
        par == IF c.node = << >> THEN 0 ELSE c.node[Len(c.node)]
        open == t.ID = "BraceOpen" /\ c.state \in ParamStates
        close == t.ID = "BraceClose" /\ c.state = "stateChildren" IN
    [pendNode |-> IF c.state \in NodeStates /\ t.ID = "TokenComment" THEN TRUE
                  ELSE IF c.state \in NodeStates /\ IsNameToken(t.ID) THEN FALSE
                  ELSE g.pendNode,
     pendItem |-> IF c.state \in ParamStates /\ t.ID = "TokenComment" THEN TRUE
                  ELSE IF c.state \in ParamStates /\ (IsValueToken(t.ID) \/ open)
                       THEN FALSE
                  ELSE g.pendItem,
     elide |-> IF open /\ (g.pendItem \/ g.elide > 0) THEN g.elide + 1
               ELSE IF close /\ g.elide > 0 THEN g.elide - 1
               ELSE g.elide,
     parent |-> IF new THEN Append(g.parent, par) ELSE g.parent,
     marked |-> IF new /\ g.pendNode THEN g.marked \cup {Len(c2.nodes)} ELSE g.marked,
     ignored |-> IF new /\ c.ignoreChildren > 0 THEN g.ignored \cup {Len(c2.nodes)}
                 ELSE g.ignored,
     elided |-> IF new /\ g.elide > 0 THEN g.elided \cup {Len(c2.nodes)} ELSE g.elided,
     later |-> IF new /\ g.dropped THEN g.later \cup {Len(c2.nodes)} ELSE g.later,
     continued |-> IF t.ID = "Newline" /\ c.continuation /\ c.node # << >>
                      /\ c2.node = c.node
                   THEN g.continued \cup {currentNode(c)}
                   ELSE g.continued,
     dropped |-> g.dropped,
     built |-> 0]

NoHistory ==
    [pendNode |-> FALSE, pendItem |-> FALSE, elide |-> 0,
     parent |-> << >>, marked |-> {}, ignored |-> {}, elided |-> {}, later |-> {},
     continued |-> {}, dropped |-> FALSE, built |-> 0]

\* the history once parse has returned an error with cx the context it
\* abandons: the number of nodes that had been built
Abandoned(cx) == [NoHistory EXCEPT !.built = Len(cx.nodes)]

\* The heap holds the nodes that can still be reached: those of the
\* document and of the node stack, and the nodes below them.  A node made
\* by createNode is reachable only through the node stack; once it is
\* popped, it and everything made since are garbage.
RECURSIVE Live(_, _)
Live(cx, k) ==
    IF k = 0 THEN {}
    ELSE LET below == Live(cx, k - 1) IN
         IF \/ \E i \in 1..Len(cx.node) : cx.node[i] = k
            \/ \E i \in 1..Len(cx.doc) : cx.doc[i] = k
            \/ \E m \in below : \E i \in 1..Len(cx.nodes[m].Children) :
                   cx.nodes[m].Children[i] = k
         THEN below \cup {k}
         ELSE below

\* the number of nodes of the heap up to the last reachable one
Keep(cx) ==
    LET live == Live(cx, Len(cx.nodes)) IN
    IF live = {} THEN 0 ELSE CHOOSE k \in live : \A j \in live : j <= k

Collect(cx, keep) == [cx EXCEPT !.nodes = SubSeq(@, 1, keep)]

\* the history of the nodes kept; dropped records that a node that followed
\* a '/-' marker has been left behind
CollectHistory(h, keep) ==
    [h EXCEPT !.dropped = @ \/ \E n \in h.marked : n > keep,
              !.parent = SubSeq(@, 1, keep),
              !.marked = @ \cap (1..keep),
              !.ignored = @ \cap (1..keep),
              !.elided = @ \cap (1..keep),
              !.later = @ \cap (1..keep),
              !.continued = @ \cap (1..keep)]

\* "return c.Document(), err"
ReturnErrorMutant(err) == [doc |-> TRUE, err |-> err]

\* what parse returns: "return nil, err" and "return c.Document(), nil"
ReturnError(err) == [doc |-> FALSE, err |-> err]

ReturnDocument == [doc |-> TRUE, err |-> NoErr]

NotReturned == [doc |-> FALSE, err |-> NoErr]

ParserInit ==
    /\ \E opts \in RelaxedOptions :
           c = NewContextOptions([RelaxedNonCompliant |-> opts])
    /\ token = NoToken
    /\ scanner = [at |-> "open", vocabulary |-> TokenAlphabet, left |-> MaxTokens]
    /\ pc = "scan"
    /\ ret = NotReturned
    /\ g = NoHistory
    /\ codec = NoCodec
    /\ rt = NoRoundTrip
    /\ TokenizerIdle

ElisionInit ==
    /\ c = NewContextOptions([RelaxedNonCompliant |-> 0])
    /\ token = NoToken
    /\ scanner = [at |-> "open", vocabulary |-> ElisionAlphabet,
                  left |-> MaxElisionTokens]
    /\ pc = "scan"
    /\ ret = NotReturned
    /\ g = NoHistory
    /\ codec = NoCodec
    /\ rt = NoRoundTrip
    /\ TokenizerIdle

PropertiesInit ==
    /\ c = NewContextOptions([RelaxedNonCompliant |-> 0])
    /\ token = NoToken
    /\ scanner = [at |-> "open", vocabulary |-> PropertiesAlphabet,
                  left |-> MaxPropertiesTokens]
    /\ pc = "scan"
    /\ ret = NotReturned
    /\ g = NoHistory
    /\ codec = NoCodec
    /\ rt = NoRoundTrip
    /\ TokenizerIdle

\* the turn with the error of Parse not looked at
ParseTurnMutant(t, r) ==
    /\ WithinBounds(r.c)
    /\ token' = t
    /\ scanner' = [scanner EXCEPT !.at = IF t.ID = "EOF" THEN "eof" ELSE "open",
                                  !.left = @ - 1]
    /\ UNCHANGED <<codec, rt, tokenizerVars>>
    /\ pc' = "scan"
    /\ ret' = ret
    /\ c' = Collect(r.c, Keep(r.c))
    /\ g' = CollectHistory(History(t, r.c), Keep(r.c))

\* one turn of the loop: Scan delivers token t, Parse handles it through
\* the table entry (state, key); an error makes parse return
\* the context is local to parse: it is gone once parse has returned an
\* error, and the history of the input with it
ParseTurn(t, r) ==
    /\ WithinBounds(r.c)
    /\ token' = t
    /\ scanner' = [scanner EXCEPT !.at = IF t.ID = "EOF" THEN "eof" ELSE "open",
                                  !.left = @ - 1]
    /\ UNCHANGED <<codec, rt, tokenizerVars>>
    /\ IF r.err # NoErr
       THEN /\ pc' = "done"
            /\ ret' = ReturnError(r.err)
            /\ c' = NewContextOptions(c.opts)
            /\ g' = Abandoned(r.c)
       ELSE /\ pc' = "scan"
            /\ ret' = ret
            /\ c' = Collect(r.c, Keep(r.c))
            /\ g' = CollectHistory(History(t, r.c), Keep(r.c))

IsNumberToken(id) ==
    id \in {"Decimal", "SuffixedDecimal", "Hexadecimal", "Octal", "Binary"}

\* Scanner.readNext: whether a token of kind id can be the one scanned
\* after a token of kind prev under the relaxed flags f.  A run of
\* whitespace or of identifier characters is one token; a number ends at a
\* separator or at the end of the input; a single-line comment ends at a
\* newline or at the end of the input; under NGINXSyntax '(', ')', '\' and
\* '"' are identifier characters; a number has a suffix only under
\* MultiplierSuffixes.
Follows(prev, id, f) ==
    /\ prev = "Whitespace" => id # "Whitespace"
    /\ prev \in {"BareIdentifier", "Boolean", "Null"} =>
           id \notin {"BareIdentifier", "Boolean", "Null"} /\ ~IsNumberToken(id)
    /\ (prev = "BareIdentifier" /\ Permit(f, NGINXSyntax)) => id # "QuotedString"
    /\ IsNumberToken(prev) => id \in {"Whitespace", "Newline", "Semicolon", "EOF"}
    /\ prev = "SingleLineComment" => id \in {"Newline", "EOF"}
    /\ Permit(f, NGINXSyntax) => id \notin {"ParensOpen", "ParensClose", "Continuation"}
    /\ id = "SuffixedDecimal" => Permit(f, MultiplierSuffixes)

\* the tokens Scan may deliver now that Parse handles through the entry
\* key of the current state ("none": that have no entry)
Scanned(key) ==
    IF pc = "scan" /\ scanner.at = "open" /\ scanner.left > 0
    THEN {Stamp(t0, ln) :
              t0 \in {x \in scanner.vocabulary :
                         /\ Follows(token.ID, x.ID, c.opts.RelaxedNonCompliant)
                         /\ LookupTransition(c.state, x.ID) = key},
              ln \in 1..MaxLine}
    ELSE {}

\* the rest of the turn once the entry's handler has left context c1
Handled(t, c1) == ParseTurn(t, ParseAfter(c1, t))

\* the turns of the loop, one for each entry of stateTransitions
Do_Document_Whitespace ==
    /\ c.state = "stateDocument"
    /\ \E t \in Scanned("Whitespace") : Handled(t, stateDocument_Whitespace(c, t))

Do_Document_ClassIdentifier ==
    /\ c.state = "stateDocument"
    /\ \E t \in Scanned("ClassIdentifier") : Handled(t, stateDocument_ClassIdentifier(c, t))

Do_Document_ParensOpen ==
    /\ c.state = "stateDocument"
    /\ \E t \in Scanned("ParensOpen") : Handled(t, stateDocument_ParensOpen(c, t))

Do_Document_ClassTerminator ==
    /\ c.state = "stateDocument"
    /\ \E t \in Scanned("ClassTerminator") : Handled(t, stateDocument_ClassTerminator(c, t))

Do_Document_ClassComment ==
    /\ c.state = "stateDocument"
    /\ \E t \in Scanned("ClassComment") : Handled(t, stateDocument_ClassComment(c, t))

Do_Document_TokenComment ==
    /\ c.state = "stateDocument"
    /\ \E t \in Scanned("TokenComment") : Handled(t, stateDocument_TokenComment(c, t))

Do_Children_Whitespace ==
    /\ c.state = "stateChildren"
    /\ \E t \in Scanned("Whitespace") : Handled(t, stateChildren_Whitespace(c, t))

Do_Children_ClassComment ==
    /\ c.state = "stateChildren"
    /\ \E t \in Scanned("ClassComment") : Handled(t, stateChildren_ClassComment(c, t))

Do_Children_TokenComment ==
    /\ c.state = "stateChildren"
    /\ \E t \in Scanned("TokenComment") : Handled(t, stateChildren_TokenComment(c, t))

Do_Children_ParensOpen ==
    /\ c.state = "stateChildren"
    /\ \E t \in Scanned("ParensOpen") : Handled(t, stateChildren_ParensOpen(c, t))

Do_Children_Newline ==
    /\ c.state = "stateChildren"
    /\ \E t \in Scanned("Newline") : Handled(t, stateChildren_Newline(c, t))

Do_Children_ClassIdentifier ==
    /\ c.state = "stateChildren"
    /\ \E t \in Scanned("ClassIdentifier") : Handled(t, stateChildren_ClassIdentifier(c, t))

Do_Children_BraceClose ==
    /\ c.state = "stateChildren"
    /\ \E t \in Scanned("BraceClose") : Handled(t, stateChildren_BraceClose(c, t))

Do_TypeAnnot_BareIdentifier ==
    /\ c.state = "stateTypeAnnot"
    /\ \E t \in Scanned("BareIdentifier") : Handled(t, stateTypeAnnot_BareIdentifier(c, t))

Do_TypeAnnot_ClassString ==
    /\ c.state = "stateTypeAnnot"
    /\ \E t \in Scanned("ClassString") : Handled(t, stateTypeAnnot_ClassString(c, t))

Do_TypeDone_ParensClose ==
    /\ c.state = "stateTypeDone"
    /\ \E t \in Scanned("ParensClose") : Handled(t, stateTypeDone_ParensClose(c, t))

Do_Node_Whitespace ==
    /\ c.state = "stateNode"
    /\ \E t \in Scanned("Whitespace") : Handled(t, stateNode_Whitespace(c, t))

Do_Node_ClassTerminator ==
    /\ c.state = "stateNode"
    /\ \E t \in Scanned("ClassTerminator") : Handled(t, stateNode_ClassTerminator(c, t))

Do_Node_Equals ==
    /\ c.state = "stateNode"
    /\ \E t \in Scanned("Equals") : Handled(t, stateNode_Equals(c, t))

Do_NodeParams_Whitespace ==
    /\ c.state = "stateNodeParams"
    /\ \E t \in Scanned("Whitespace") : Handled(t, stateNodeParams_Whitespace(c, t))

Do_NodeParams_Equals ==
    /\ c.state = "stateNodeParams"
    /\ \E t \in Scanned("Equals") : Handled(t, stateNodeParams_Equals(c, t))

Do_NodeParams_TokenComment ==
    /\ c.state = "stateNodeParams"
    /\ \E t \in Scanned("TokenComment") : Handled(t, stateNodeParams_TokenComment(c, t))

Do_NodeParams_MultiLineComment ==
    /\ c.state = "stateNodeParams"
    /\ \E t \in Scanned("MultiLineComment") : Handled(t, stateNodeParams_MultiLineComment(c, t))

Do_NodeParams_SingleLineComment ==
    /\ c.state = "stateNodeParams"
    /\ \E t \in Scanned("SingleLineComment") : Handled(t, stateNodeParams_SingleLineComment(c, t))

Do_NodeParams_Continuation ==
    /\ c.state = "stateNodeParams"
    /\ \E t \in Scanned("Continuation") : Handled(t, stateNodeParams_Continuation(c, t))

Do_NodeParams_ParensOpen ==
    /\ c.state = "stateNodeParams"
    /\ \E t \in Scanned("ParensOpen") : Handled(t, stateNodeParams_ParensOpen(c, t))

Do_NodeParams_BareIdentifier ==
    /\ c.state = "stateNodeParams"
    /\ \E t \in Scanned("BareIdentifier") : Handled(t, stateNodeParams_BareIdentifier(c, t))

Do_NodeParams_SuffixedDecimal ==
    /\ c.state = "stateNodeParams"
    /\ \E t \in Scanned("SuffixedDecimal") : Handled(t, stateNodeParams_SuffixedDecimal(c, t))

Do_NodeParams_ClassString ==
    /\ c.state = "stateNodeParams"
    /\ \E t \in Scanned("ClassString") : Handled(t, stateNodeParams_ClassString(c, t))

Do_NodeParams_ClassNonStringValue ==
    /\ c.state = "stateNodeParams"
    /\ \E t \in Scanned("ClassNonStringValue") : Handled(t, stateNodeParams_ClassNonStringValue(c, t))

Do_NodeParams_BraceOpen ==
    /\ c.state = "stateNodeParams"
    /\ \E t \in Scanned("BraceOpen") : Handled(t, stateNodeParams_BraceOpen(c, t))

Do_NodeParams_ClassTerminator ==
    /\ c.state = "stateNodeParams"
    /\ \E t \in Scanned("ClassTerminator") : Handled(t, stateNodeParams_ClassTerminator(c, t))

Do_NodeEnd_ClassEndOfLine ==
    /\ c.state = "stateNodeEnd"
    /\ \E t \in Scanned("ClassEndOfLine") : Handled(t, stateNodeEnd_ClassEndOfLine(c, t))

Do_Property_Equals ==
    /\ c.state = "stateProperty"
    /\ \E t \in Scanned("Equals") : Handled(t, stateProperty_Equals(c, t))

Do_ArgProp_TokenComment ==
    /\ c.state = "stateArgProp"
    /\ \E t \in Scanned("TokenComment") : Handled(t, stateArgProp_TokenComment(c, t))

Do_ArgProp_BraceOpen ==
    /\ c.state = "stateArgProp"
    /\ \E t \in Scanned("BraceOpen") : Handled(t, stateArgProp_BraceOpen(c, t))

Do_ArgProp_Equals ==
    /\ c.state = "stateArgProp"
    /\ \E t \in Scanned("Equals") : Handled(t, stateArgProp_Equals(c, t))

Do_ArgProp_Whitespace ==
    /\ c.state = "stateArgProp"
    /\ \E t \in Scanned("Whitespace") : Handled(t, stateArgProp_Whitespace(c, t))

Do_ArgProp_ClassTerminator ==
    /\ c.state = "stateArgProp"
    /\ \E t \in Scanned("ClassTerminator") : Handled(t, stateArgProp_ClassTerminator(c, t))

Do_ArgProp_ClassValue ==
    /\ c.state = "stateArgProp"
    /\ \E t \in Scanned("ClassValue") : Handled(t, stateArgProp_ClassValue(c, t))

Do_PropertyValue_ParensOpen ==
    /\ c.state = "statePropertyValue"
    /\ \E t \in Scanned("ParensOpen") : Handled(t, statePropertyValue_ParensOpen(c, t))

Do_PropertyValue_ClassValue ==
    /\ c.state = "statePropertyValue"
    /\ \E t \in Scanned("ClassValue") : Handled(t, statePropertyValue_ClassValue(c, t))

ParserStates ==
    {"stateDocument", "stateNode", "stateNodeParams", "stateNodeEnd", "stateArgProp",
     "stateProperty", "statePropertyValue", "stateChildren", "stateTypeAnnot",
     "stateTypeDone"}

\* a turn of the loop whose token has no entry in the current state
NoTransition ==
    /\ c.state \in ParserStates
    /\ \E t \in Scanned("none") : ParseTurn(t, ParseKey(c, t, "none"))

\* Scan returns false with an error of the scanner: "return nil, s.Err()"
ScanFails ==
    /\ pc = "scan"
    /\ scanner.at = "open"
    /\ pc' = "done"
    /\ ret' = ReturnError([msg |-> "scan error", Line |-> 0])
    /\ c' = NewContextOptions(c.opts)
    /\ g' = Abandoned(c)
    /\ UNCHANGED <<token, scanner, codec, rt, tokenizerVars>>

\* the return of the document with s.Err() not looked at
ScanEndsMutant ==
    /\ pc = "scan"
    /\ pc' = "done"
    /\ ret' = ReturnDocument
    /\ UNCHANGED <<c, token, scanner, g, codec, rt, tokenizerVars>>

\* Scan returns false after the EOF token: "return c.Document(), nil"
ScanEnds ==
    /\ pc = "scan"
    /\ scanner.at = "eof"
    /\ pc' = "done"
    /\ ret' = ReturnDocument
    /\ UNCHANGED <<c, token, scanner, g, codec, rt, tokenizerVars>>

ParserNext ==
    \/ Do_Document_Whitespace
    \/ Do_Document_ClassIdentifier
    \/ Do_Document_ParensOpen
    \/ Do_Document_ClassTerminator
    \/ Do_Document_ClassComment
    \/ Do_Document_TokenComment
    \/ Do_Children_Whitespace
    \/ Do_Children_ClassComment
    \/ Do_Children_TokenComment
    \/ Do_Children_ParensOpen
    \/ Do_Children_Newline
    \/ Do_Children_ClassIdentifier
    \/ Do_Children_BraceClose
    \/ Do_TypeAnnot_BareIdentifier
    \/ Do_TypeAnnot_ClassString
    \/ Do_TypeDone_ParensClose
    \/ Do_Node_Whitespace
    \/ Do_Node_ClassTerminator
    \/ Do_Node_Equals
    \/ Do_NodeParams_Whitespace
    \/ Do_NodeParams_Equals
    \/ Do_NodeParams_TokenComment
    \/ Do_NodeParams_MultiLineComment
    \/ Do_NodeParams_SingleLineComment
    \/ Do_NodeParams_Continuation
    \/ Do_NodeParams_ParensOpen
    \/ Do_NodeParams_BareIdentifier
    \/ Do_NodeParams_SuffixedDecimal
    \/ Do_NodeParams_ClassString
    \/ Do_NodeParams_ClassNonStringValue
    \/ Do_NodeParams_BraceOpen
    \/ Do_NodeParams_ClassTerminator
    \/ Do_NodeEnd_ClassEndOfLine
    \/ Do_Property_Equals
    \/ Do_ArgProp_TokenComment
    \/ Do_ArgProp_BraceOpen
    \/ Do_ArgProp_Equals
    \/ Do_ArgProp_Whitespace
    \/ Do_ArgProp_ClassTerminator
    \/ Do_ArgProp_ClassValue
    \/ Do_PropertyValue_ParensOpen
    \/ Do_PropertyValue_ClassValue
    \/ NoTransition
    \/ ScanFails
    \/ ScanEnds

Spec == ParserInit /\ [][ParserNext]_vars

\* the turns an input over ElisionAlphabet can take
ElisionNext ==
    \/ Do_Document_Whitespace
    \/ Do_Document_ClassIdentifier
    \/ Do_Document_ClassTerminator
    \/ Do_Document_TokenComment
    \/ Do_Children_Whitespace
    \/ Do_Children_TokenComment
    \/ Do_Children_Newline
    \/ Do_Children_ClassIdentifier
    \/ Do_Children_BraceClose
    \/ Do_Node_Whitespace
    \/ Do_Node_ClassTerminator
    \/ Do_NodeParams_Whitespace
    \/ Do_NodeParams_TokenComment
    \/ Do_NodeParams_BareIdentifier
    \/ Do_NodeParams_ClassString
    \/ Do_NodeParams_ClassNonStringValue
    \/ Do_NodeParams_BraceOpen
    \/ Do_NodeParams_ClassTerminator
    \/ Do_Property_Equals
    \/ Do_ArgProp_TokenComment
    \/ Do_ArgProp_BraceOpen
    \/ Do_ArgProp_Equals
    \/ Do_ArgProp_Whitespace
    \/ Do_ArgProp_ClassTerminator
    \/ Do_ArgProp_ClassValue
    \/ Do_PropertyValue_ClassValue
    \/ NoTransition
    \/ ScanFails
    \/ ScanEnds

SpecElision == ElisionInit /\ [][ElisionNext]_vars


\* the turns an input over PropertiesAlphabet can take
PropertiesNext ==
    \/ Do_Document_Whitespace
    \/ Do_Document_ClassIdentifier
    \/ Do_Document_ClassTerminator
    \/ Do_Node_Whitespace
    \/ Do_Node_ClassTerminator
    \/ Do_NodeParams_BareIdentifier
    \/ Do_NodeParams_ClassString
    \/ Do_NodeParams_ClassNonStringValue
    \/ Do_NodeParams_ClassTerminator
    \/ Do_Property_Equals
    \/ Do_ArgProp_Equals
    \/ Do_ArgProp_Whitespace
    \/ Do_ArgProp_ClassTerminator
    \/ Do_ArgProp_ClassValue
    \/ Do_PropertyValue_ClassValue
    \/ NoTransition
    \/ ScanFails
    \/ ScanEnds

SpecProperties == PropertiesInit /\ [][PropertiesNext]_vars

\* An input of names, keywords, values, '=' and type annotations on one
\* line, parsed under the default options and under YAMLTOMLAssignments.
EqualsAlphabet ==
    {Token("Whitespace", <<32>>), Token("EOF", << >>), Token("Equals", <<61>>),
     Token("BareIdentifier", <<97>>), Token("QuotedString", <<34, 97, 34>>),
     Token("Boolean", <<116, 114, 117, 101>>), Token("Null", <<110, 117, 108, 108>>),
     Token("Decimal", <<49>>),
     Token("ParensOpen", <<40>>), Token("ParensClose", <<41>>)}

EqualsInit ==
    /\ \E f \in {0, YAMLTOMLAssignments} :
           c = NewContextOptions([RelaxedNonCompliant |-> f])
    /\ token = NoToken
    /\ scanner = [at |-> "open", vocabulary |-> EqualsAlphabet,
                  left |-> MaxEqualsTokens]
    /\ pc = "scan"
    /\ ret = NotReturned
    /\ g = NoHistory
    /\ codec = NoCodec
    /\ rt = NoRoundTrip
    /\ TokenizerIdle

EqualsNext ==
    \/ Do_Document_Whitespace
    \/ Do_Document_ClassIdentifier
    \/ Do_Document_ParensOpen
    \/ Do_Document_ClassTerminator
    \/ Do_TypeAnnot_BareIdentifier
    \/ Do_TypeAnnot_ClassString
    \/ Do_TypeDone_ParensClose
    \/ Do_Node_Whitespace
    \/ Do_Node_ClassTerminator
    \/ Do_Node_Equals
    \/ Do_NodeParams_Whitespace
    \/ Do_NodeParams_Equals
    \/ Do_NodeParams_ParensOpen
    \/ Do_NodeParams_BareIdentifier
    \/ Do_NodeParams_ClassString
    \/ Do_NodeParams_ClassNonStringValue
    \/ Do_NodeParams_ClassTerminator
    \/ Do_Property_Equals
    \/ Do_ArgProp_Equals
    \/ Do_ArgProp_Whitespace
    \/ Do_ArgProp_ClassTerminator
    \/ Do_ArgProp_ClassValue
    \/ Do_PropertyValue_ParensOpen
    \/ Do_PropertyValue_ClassValue
    \/ NoTransition
    \/ ScanFails
    \/ ScanEnds

SpecEquals == EqualsInit /\ [][EqualsNext]_vars

(***************************************************************************)
(* A caller of the value codec: it quotes a string and unquotes the        *)
(* result, or has the raw form of the string made.                         *)
(*   codec   phase is "input" (s chosen), "quoted" (out is QuoteString(s)),*)
(*           "unquoted" (out, err are UnquoteString of the quoted form) or *)
(*           "raw" (out is rawString(s))                                   *)
(***************************************************************************)
\* the scalar values the strings are made of: U+0001, '"', '#', '\', 'a',
\* U+007F, U+00E9 and U+10FFFF
CodecRunes == {1, chQuote, chHash, chBackslash, 97, 127, 233, MaxRune}

\* the strings of at most MaxStrLen scalar values, as UTF-8
RECURSIVE RuneSeqs(_)
RuneSeqs(n) ==
    IF n = 0 THEN {<< >>}
    ELSE LET shorter == RuneSeqs(n - 1) IN
         shorter \cup {Append(rs, r) : rs \in {x \in shorter : Len(x) = n - 1},
                                       r \in CodecRunes}

\* a '"' followed by a run of '#' that ends one short of the marker loop's
\* limit, or reaches it
HashRuns == {<<chQuote>> \o Repeat(chHash, n) : n \in {MarkerCap - 2, MarkerCap - 1}}

CodecInputs == {EncodeString(rs) : rs \in RuneSeqs(MaxStrLen)} \cup HashRuns

\* the parser is not running
ParserIdle ==
    /\ c = NewContextOptions([RelaxedNonCompliant |-> 0])
    /\ token = NoToken
    /\ scanner = [at |-> "closed", vocabulary |-> {}, left |-> 0]
    /\ pc = "idle"
    /\ ret = NotReturned
    /\ g = NoHistory

CodecInit ==
    /\ ParserIdle
    /\ TokenizerIdle
    /\ rt = NoRoundTrip
    /\ \E s \in CodecInputs : codec = [phase |-> "input", s |-> s, out |-> << >>, err |-> FALSE]

\* out := QuoteString(s)
CallQuoteString ==
    /\ codec.phase = "input"
    /\ codec' = [codec EXCEPT !.phase = "quoted", !.out = QuoteString(codec.s)]
    /\ UNCHANGED <<c, token, scanner, pc, ret, g, rt, tokenizerVars>>

\* out, err := UnquoteString(out)
Unquoted(u) == [codec EXCEPT !.phase = "unquoted", !.out = u.b, !.err = u.err]

CallUnquoteString ==
    /\ codec.phase = "quoted"
    /\ codec' = Unquoted(UnquoteString(codec.out))
    /\ UNCHANGED <<c, token, scanner, pc, ret, g, rt, tokenizerVars>>

\* out := rawString(s)
CallRawString ==
    /\ codec.phase = "input"
    /\ codec' = [codec EXCEPT !.phase = "raw", !.out = rawString(codec.s)]
    /\ UNCHANGED <<c, token, scanner, pc, ret, g, rt, tokenizerVars>>

CodecNext ==
    \/ CallQuoteString
    \/ CallUnquoteString
    \/ CallRawString

SpecCodec == CodecInit /\ [][CodecNext]_vars

(***************************************************************************)
(* A caller has a quoted string unquoted that holds one \u escape: "\u{,   *)
(* the characters between the braces, the closing brace or none, and one   *)
(* more character or none.  codec.out is the quoted string; lab holds the  *)
(* parts it was made of.                                                   *)
(***************************************************************************)
MaxEscapeDigits == 7

\* 1, F and g between the braces, and the texts at the limits
EscapeDigits ==
    UNION {[1..n -> {49, 70, 103}] : n \in 0..MaxEscapeDigits}
        \cup {<<48>>, <<49, 48, 70, 70, 70, 70>>, <<49, 49, 48, 48, 48, 48>>,
              <<48, 48, 48, 48, 48, 48>>, <<48, 48, 48, 48, 48, 48, 48>>,
              <<50, 48>>, <<100, 56, 48, 48>>}

EscapeText(digits, closed, tail) ==
    <<chQuote, chBackslash, chLowerU, chBraceOpen>> \o digits
        \o (IF closed THEN <<chBraceClose>> ELSE << >>) \o tail \o <<chQuote>>

EscapesInit ==
    /\ ParserIdle
    /\ preload = << >>
    /\ stream = << >>
    /\ staticScan = << >>
    /\ calls = << >>
    /\ rt = NoRoundTrip
    /\ \E digits \in EscapeDigits, closed \in BOOLEAN, tail \in {<< >>, <<97>>} :
           /\ lab = [phase |-> "escape", digits |-> digits, closed |-> closed, tail |-> tail]
           /\ codec = [phase |-> "quoted", s |-> << >>,
                       out |-> EscapeText(digits, closed, tail), err |-> FALSE]

EscapesNext == CallUnquoteString

SpecEscapes == EscapesInit /\ [][EscapesNext]_vars

(***************************************************************************)
(* tokenizer: Scanner.readNext (scanner.go, readtype.go) in the strict     *)
(* dialect (RelaxedNonCompliant = 0), which is what kdl.Parse scans with.  *)
(* The input is a sequence of bytes and a position in it is a 0-based byte *)
(* offset.  A scan leaves [status, tok, next]: status is "ok" (tok was     *)
(* read, the input goes on at next), "eof" (readNext returned io.EOF, Scan *)
(* delivers the EOF token) or "error".  The end of a run of characters is  *)
(* an offset, or -1 where the reader returns an error.  Line and Column of *)
(* the tokens are not kept here.                                           *)
(***************************************************************************)
\* peekSize at offset i: size is 0 at the end of the input
Peek(text, i) == DecodeRune(Slice(text, i, Len(text)))

\* "err == nil" of a peek: a rune is there and it is not RuneError (the
\* scanner takes every rune that decodes to U+FFFD for invalid input)
Peeked(p) == p.size > 0 /\ p.r # RuneError

isWhiteSpace(r) ==
    r \in {9, 32, 160, 5760, 8239, 8287, 12288, 65279} \/ (r >= 8192 /\ r <= 8202)

isNewline(r) == r \in {13, 10, 133, 12, 8232, 8233}

isDigit(r) == r >= 48 /\ r <= 57

isSeparator(r) == isWhiteSpace(r) \/ isNewline(r) \/ r = 59

\* isBareIdentifierChar and isBareIdentifierStartChar with no relaxed flag
isBareIdentifierChar(r) ==
    /\ ~isWhiteSpace(r) /\ ~isNewline(r)
    /\ r > 32 /\ r <= MaxRune
    /\ r \notin {123, 125, 60, 62, 59, 91, 93, 61, 44}
    /\ r \notin {40, 41, 47, 92, 34}

isBareIdentifierStartChar(r) == isBareIdentifierChar(r) /\ ~isDigit(r)

\* IsBareIdentifier(s, 0), from offset i of s on
RECURSIVE BareFrom(_, _)
BareFrom(s, i) ==
    LET p == Peek(s, i) IN
    IF p.size = 0 THEN TRUE
    ELSE IF i = 0 /\ ~isBareIdentifierStartChar(p.r) THEN FALSE
    ELSE IF i > 0 /\ ~isBareIdentifierChar(p.r) THEN FALSE
    ELSE BareFrom(s, i + p.size)

IsBareIdentifier(s) == Len(s) > 0 /\ BareFrom(s, 0)

\* the validRune closures of the readers
InRun(kind, r) ==
    CASE kind = "white" -> isWhiteSpace(r)
      [] kind = "ident" -> isBareIdentifierChar(r)
      [] kind = "digits" -> isDigit(r) \/ r = 95
      [] kind = "hex" -> isDigit(r) \/ (r >= 97 /\ r <= 102) \/ (r >= 65 /\ r <= 70) \/ r = 95
      [] kind = "octal" -> (r >= 48 /\ r <= 55) \/ r = 95
      [] kind = "binary" -> r \in {48, 49, 95}

\* a single byte that readWhile takes for a run of kind
RunByte(kind, b) == b < 128 /\ InRun(kind, b)

\* how many single bytes in a row, from offset i on, are of the run
RunBytes(text, i, kind) ==
    CHOOSE n \in 0..(Len(text) - i) :
        /\ \A k \in 1..n : RunByte(kind, text[i + k])
        /\ i + n < Len(text) => ~RunByte(kind, text[i + n + 1])

\* the loop of readWhile from offset i: the offset it stops at; the
\* iterations over single bytes are taken in one step
RECURSIVE RunEnd(_, _, _)
RunEndFrom(text, j, kind) ==
    LET p == Peek(text, j) IN
    IF p.size = 0 THEN j
    ELSE IF p.r = RuneError THEN -1
    ELSE IF InRun(kind, p.r) THEN RunEnd(text, j + p.size, kind)
    ELSE j

RunEnd(text, i, kind) == RunEndFrom(text, i + RunBytes(text, i, kind), kind)

ScanFail == [status |-> "error", tok |-> NoToken, next |-> 0]

ScanEOF(i) == [status |-> "eof", tok |-> Token("EOF", << >>), next |-> i]

ScanOK(id, text, i, j) == [status |-> "ok", tok |-> Token(id, Slice(text, i, j)), next |-> j]

\* a token that runs from i to j, j being -1 after an error; readWhile wants
\* at least one valid rune and min bytes
ScanRun(id, text, i, j, min) ==
    IF j < 0 \/ j = i \/ j - i < min THEN ScanFail ELSE ScanOK(id, text, i, j)

\* the outcome when peekTwo fails with p2 the second peek
PeekTwoFailed(p2, i) == IF p2.size = 0 THEN ScanEOF(i) ELSE ScanFail

\* readUntil(isNewline, false) of readSingleLineComment
RECURSIVE UntilNewline(_, _)
UntilNewline(text, i) ==
    LET p == Peek(text, i) IN
    IF p.size = 0 THEN i
    ELSE IF p.r = RuneError THEN -1
    ELSE IF isNewline(p.r) THEN i
    ELSE UntilNewline(text, i + p.size)

RECURSIVE MultiLineEndMutant(_, _, _)
MultiLineEndMutant(text, i, depth) ==
    IF ~Peeked(Peek(text, i)) THEN -1
    ELSE IF i >= 2 /\ Peek(text, i).r = 42 /\ Peeked(Peek(text, i + 1))
            /\ Peek(text, i + 1).r = 47
    THEN i + 2
    ELSE MultiLineEndMutant(text, i + Peek(text, i).size, depth)

\* the loop of readMultiLineComment
RECURSIVE MultiLineEnd(_, _, _)
MultiLineEnd(text, i, depth) ==
    LET p == Peek(text, i)
        q == Peek(text, i + p.size) IN
    IF ~Peeked(p) THEN -1
    ELSE IF p.r = 42 /\ Peeked(q) /\ q.r = 47
    THEN IF depth - 1 = 0 THEN i + 2 ELSE MultiLineEnd(text, i + 2, depth - 1)
    ELSE IF p.r = 47 /\ Peeked(q) /\ q.r = 42 THEN MultiLineEnd(text, i + 2, depth + 1)
    ELSE MultiLineEnd(text, i + p.size, depth)

\* readInteger: a digit, then digits and '_'
IntegerEnd(text, i) ==
    IF i < 0 THEN -1
    ELSE IF Peeked(Peek(text, i)) /\ isDigit(Peek(text, i).r)
    THEN RunEnd(text, i + 1, "digits")
    ELSE -1

\* readSignedInteger
SignedIntegerEnd(text, i) ==
    IF ~Peeked(Peek(text, i)) THEN -1
    ELSE IF Peek(text, i).r \in {43, 45} THEN IntegerEnd(text, i + 1)
    ELSE IntegerEnd(text, i)

\* readDecimal after the integer part that ends at j: the fraction, the
\* exponent, and the separator that must follow
FractionEnd(text, j) ==
    IF j < 0 THEN -1
    ELSE IF Peeked(Peek(text, j)) /\ Peek(text, j).r = 46 THEN IntegerEnd(text, j + 1)
    ELSE j

ExponentEnd(text, j) ==
    IF j < 0 THEN -1
    ELSE IF Peeked(Peek(text, j)) /\ Peek(text, j).r \in {101, 69}
    THEN SignedIntegerEnd(text, j + 1)
    ELSE j

DecimalEnd(text, j) ==
    IF j < 0 THEN -1
    ELSE IF Peeked(Peek(text, j)) /\ ~isSeparator(Peek(text, j).r) THEN -1
    ELSE j

readDecimal(text, i) ==
    ScanRun("Decimal", text, i,
            DecimalEnd(text, ExponentEnd(text, FractionEnd(text, SignedIntegerEnd(text, i)))),
            1)

\* readNumericBase: the two characters of the prefix, then the digits;
\* three bytes at least, no '_' right after the prefix, and white space, a
\* newline or the end of the input behind
NumericBaseEnd(text, i, j) ==
    IF j < 0 \/ j - i < 3 THEN -1
    ELSE IF At(text, i + 2) = 95 THEN -1
    ELSE IF /\ Peeked(Peek(text, j))
            /\ ~isWhiteSpace(Peek(text, j).r)
            /\ ~isNewline(Peek(text, j).r)
    THEN -1
    ELSE j

readNumericBase(id, text, i, kind) ==
    ScanRun(id, text, i, NumericBaseEnd(text, i, RunEnd(text, i + 2, kind)), 3)

\* the closure of readQuotedStringQ from offset i, behind the opening '"';
\* readWhile peeks once more behind the closing '"'
RECURSIVE QuotedEnd(_, _, _)
QuotedEnd(text, i, escaped) ==
    LET p == Peek(text, i) IN
    IF p.size = 0 THEN i
    ELSE IF p.r = RuneError THEN -1
    ELSE IF p.r = chBackslash THEN QuotedEnd(text, i + 1, ~escaped)
    ELSE IF p.r = chQuote /\ ~escaped
    THEN IF Peek(text, i + 1).size > 0 /\ Peek(text, i + 1).r = RuneError THEN -1
         ELSE i + 1
    ELSE QuotedEnd(text, i + p.size, FALSE)

readQuotedString(text, i) ==
    ScanRun("QuotedString", text, i, QuotedEnd(text, i + 1, FALSE), 2)

\* hashLoop of readRawString from offset i: the offset behind the opening
\* '"' and the number of '#' before it
RECURSIVE RawOpen(_, _, _)
RawOpen(text, i, startHashes) ==
    LET p == Peek(text, i) IN
    IF ~Peeked(p) THEN [at |-> -1, startHashes |-> startHashes]
    ELSE IF p.r = chQuote THEN [at |-> i + 1, startHashes |-> startHashes]
    ELSE IF p.r = chHash THEN RawOpen(text, i + 1, startHashes + 1)
    ELSE [at |-> -1, startHashes |-> startHashes]

\* the closing loop of readRawString
RECURSIVE RawClose(_, _, _, _, _)
RawClose(text, i, startHashes, foundQuote, endHashes) ==
    LET p == Peek(text, i) IN
    IF ~Peeked(p) THEN -1
    ELSE IF foundQuote
    THEN IF p.r = chHash
         THEN IF endHashes + 1 = startHashes THEN i + 1
              ELSE RawClose(text, i + 1, startHashes, TRUE, endHashes + 1)
         ELSE IF p.r = chQuote THEN RawClose(text, i + 1, startHashes, TRUE, 0)
         ELSE RawClose(text, i + p.size, startHashes, FALSE, 0)
    ELSE IF p.r = chQuote
    THEN IF startHashes = 0 THEN i + 1
         ELSE RawClose(text, i + 1, startHashes, TRUE, endHashes)
    ELSE RawClose(text, i + p.size, startHashes, FALSE, endHashes)

RawEnd(text, open) ==
    IF open.at < 0 THEN -1 ELSE RawClose(text, open.at, open.startHashes, FALSE, 0)

readRawStringMutant(text, i) ==
    ScanRun("RawString", text, i,
            IF RawOpen(text, i + 1, 0).at < 0 THEN -1
            ELSE RawClose(text, RawOpen(text, i + 1, 0).at, 0, FALSE, 0),
            1)

readRawString(text, i) ==
    ScanRun("RawString", text, i, RawEnd(text, RawOpen(text, i + 1, 0)), 1)

\* the token kind of a bare identifier
BareKind(literal) ==
    IF literal = <<116, 114, 117, 101>> \/ literal = <<102, 97, 108, 115, 101>>
    THEN "Boolean"
    ELSE IF literal = <<110, 117, 108, 108>> THEN "Null"
    ELSE "BareIdentifier"

Classified(text, i, j) ==
    IF j < 0 \/ j = i THEN ScanFail ELSE ScanOK(BareKind(Slice(text, i, j)), text, i, j)

readBareIdentifier(text, i) ==
    LET p == Peek(text, i)
        p2 == Peek(text, i + p.size) IN
    IF p.r \in {43, 45}
    THEN IF ~Peeked(p2) \/ isDigit(p2.r) THEN ScanFail
         ELSE Classified(text, i, RunEnd(text, i, "ident"))
    ELSE IF ~isBareIdentifierStartChar(p.r) THEN ScanFail
    ELSE Classified(text, i, RunEnd(text, i, "ident"))

readIdentifier(text, i) ==
    LET p == Peek(text, i)
        p2 == Peek(text, i + p.size) IN
    IF p.r <= 32 \/ p.r > MaxRune THEN ScanFail
    ELSE IF p.r = chLowerR /\ Peeked(p2) /\ p2.r \in {chHash, chQuote}
    THEN readRawString(text, i)
    ELSE IF p.r = chLowerR THEN readBareIdentifier(text, i)
    ELSE IF p.r = chQuote THEN readQuotedString(text, i)
    ELSE IF p.r \in {123, 125, 60, 62, 59, 91, 93, 61, 44} THEN ScanFail
    ELSE IF p.r \in {92, 40, 41, 46, 95, 63, 47} THEN ScanFail
    ELSE IF /\ Peeked(p2)
            /\ ~isBareIdentifierStartChar(p.r)
            /\ ~(p.r = 45 /\ ~isDigit(p2.r))
    THEN ScanFail
    ELSE readBareIdentifier(text, i)

\* the token after a '/'
readSlash(text, i, p2) ==
    IF ~Peeked(p2) THEN PeekTwoFailed(p2, i)
    ELSE IF p2.r = 42 THEN ScanRun("MultiLineComment", text, i, MultiLineEnd(text, i, 0), 1)
    ELSE IF p2.r = 47 THEN ScanRun("SingleLineComment", text, i, UntilNewline(text, i), 1)
    ELSE IF p2.r = 45 THEN ScanOK("TokenComment", text, i, i + 2)
    ELSE ScanFail

\* the token after a sign
readSigned(text, i, p2) ==
    IF ~Peeked(p2) THEN PeekTwoFailed(p2, i)
    ELSE IF isDigit(p2.r) THEN readDecimal(text, i)
    ELSE readIdentifier(text, i)

\* the token after a '0'
readZero(text, i, p2) ==
    IF ~Peeked(p2) THEN PeekTwoFailed(p2, i)
    ELSE IF p2.r = 120 THEN readNumericBase("Hexadecimal", text, i, "hex")
    ELSE IF p2.r = 111 THEN readNumericBase("Octal", text, i, "octal")
    ELSE IF p2.r = 98 THEN readNumericBase("Binary", text, i, "binary")
    ELSE readDecimal(text, i)

\* the punctuation that is a token of its own
Punctuation(r) ==
    CASE r = 40 -> "ParensOpen"
      [] r = 41 -> "ParensClose"
      [] r = 123 -> "BraceOpen"
      [] r = 125 -> "BraceClose"
      [] r = 61 -> "Equals"
      [] r = 59 -> "Semicolon"
      [] r = 92 -> "Continuation"
      [] OTHER -> "Unknown"

readNext(text, i) ==
    LET p == Peek(text, i)
        p2 == Peek(text, i + p.size) IN
    IF p.size = 0 THEN ScanEOF(i)
    ELSE IF p.r = RuneError THEN ScanFail
    ELSE IF isWhiteSpace(p.r) THEN ScanRun("Whitespace", text, i, RunEnd(text, i, "white"), 1)
    ELSE IF p.r = 13
    THEN ScanOK("Newline", text, i, IF Peeked(p2) /\ p2.r = 10 THEN i + 2 ELSE i + 1)
    ELSE IF isNewline(p.r) THEN ScanOK("Newline", text, i, i + p.size)
    ELSE IF p.r = chSlash THEN readSlash(text, i, p2)
    ELSE IF Punctuation(p.r) # "Unknown" THEN ScanOK(Punctuation(p.r), text, i, i + 1)
    ELSE IF p.r \in {43, 45} THEN readSigned(text, i, p2)
    ELSE IF p.r = 48 THEN readZero(text, i, p2)
    ELSE IF isDigit(p.r) THEN readDecimal(text, i)
    ELSE readIdentifier(text, i)

\* the loop of kdl.parse over an input given at once: sc is what Scan
\* found, r what Parse returned for it
RECURSIVE ParseLoop(_, _, _)
RECURSIVE ParseStep(_, _, _)
ParseLoop(cx, text, sc) ==
    IF sc.status = "error"
    THEN [c |-> cx, err |-> [msg |-> "scan error", Line |-> 0]]
    ELSE ParseStep(Parse(cx, sc.tok), text, sc)

ParseStep(r, text, sc) ==
    IF r.err # NoErr \/ sc.status = "eof" THEN r
    ELSE ParseLoop(r.c, text, readNext(text, sc.next))

\* kdl.Parse of the bytes text
ParseText(text) ==
    ParseLoop(NewContextOptions([RelaxedNonCompliant |-> 0]), text, readNext(text, 0))

(***************************************************************************)
(* tokenizer: Scanner.readNext under the relaxed flags f, for the flags    *)
(* MultiplierSuffixes and YAMLTOMLAssignments.  NGINXSyntax is not among   *)
(* the flags here, and what the readers do under it is left out.           *)
(***************************************************************************)
\* isBareIdentifierChar(c, r) and isBareIdentifierStartChar(c, r)
isBareIdentifierCharRelaxed(r, f) ==
    isBareIdentifierChar(r) /\ (r = 58 => ~Permit(f, YAMLTOMLAssignments))

isBareIdentifierStartCharRelaxed(r, f) == isBareIdentifierCharRelaxed(r, f) /\ ~isDigit(r)

\* the loop of readWhile with the closure of readBareIdentifier
RECURSIVE IdentifierEnd(_, _, _)
IdentifierEnd(text, i, f) ==
    LET p == Peek(text, i) IN
    IF p.size = 0 THEN i
    ELSE IF p.r = RuneError THEN -1
    ELSE IF isBareIdentifierCharRelaxed(p.r, f) THEN IdentifierEnd(text, i + p.size, f)
    ELSE i

readBareIdentifierRelaxed(text, i, f) ==
    LET p == Peek(text, i)
        p2 == Peek(text, i + p.size) IN
    IF p.r \in {43, 45}
    THEN IF ~Peeked(p2) \/ isDigit(p2.r) THEN ScanFail
         ELSE Classified(text, i, IdentifierEnd(text, i, f))
    ELSE IF ~isBareIdentifierStartCharRelaxed(p.r, f) THEN ScanFail
    ELSE Classified(text, i, IdentifierEnd(text, i, f))

readIdentifierRelaxed(text, i, f) ==
    LET p == Peek(text, i)
        p2 == Peek(text, i + p.size) IN
    IF p.r <= 32 \/ p.r > MaxRune THEN ScanFail
    ELSE IF p.r = chLowerR /\ Peeked(p2) /\ p2.r \in {chHash, chQuote}
    THEN readRawString(text, i)
    ELSE IF p.r = chLowerR THEN readBareIdentifierRelaxed(text, i, f)
    ELSE IF p.r = chQuote THEN readQuotedString(text, i)
    ELSE IF p.r \in {123, 125, 60, 62, 59, 91, 93, 61, 44} THEN ScanFail
    ELSE IF p.r \in {92, 40, 41, 46, 95, 63, 47} THEN ScanFail
    ELSE IF /\ Peeked(p2)
            /\ ~isBareIdentifierStartCharRelaxed(p.r, f)
            /\ ~(p.r = 45 /\ ~isDigit(p2.r))
    THEN ScanFail
    ELSE readBareIdentifierRelaxed(text, i, f)

\* h m s u µ k K M g G t T b
MultiplierLetters == {104, 109, 115, 117, 181, 107, 75, 77, 103, 71, 116, 84, 98}

\* the loop of readWhile with the closure readInteger makes under
\* MultiplierSuffixes: the offset it stops at and hasMultiplier
RECURSIVE MultiplierRun(_, _, _, _, _)
MultiplierRun(text, i, first, multiplierOK, hasMultiplier) ==
    LET p == Peek(text, i) IN
    IF p.size = 0 THEN [end |-> i, hasMultiplier |-> hasMultiplier]
    ELSE IF p.r = RuneError THEN [end |-> -1, hasMultiplier |-> hasMultiplier]
    ELSE IF first /\ p.r \in {43, 45}
    THEN MultiplierRun(text, i + 1, FALSE, FALSE, hasMultiplier)
    ELSE IF multiplierOK /\ p.r \in MultiplierLetters
    THEN MultiplierRun(text, i + p.size, FALSE, multiplierOK, TRUE)
    ELSE IF isDigit(p.r) \/ p.r = 95
    THEN MultiplierRun(text, i + p.size, FALSE, multiplierOK, hasMultiplier)
    ELSE [end |-> i, hasMultiplier |-> hasMultiplier]

\* what a reader of a part of a number returns: the offset it stopped at,
\* -1 with an error, and the TokenID
NumberPart(end, id) == [end |-> end, id |-> id]

readIntegerMutant(text, i, f) ==
    NumberPart(IF MultiplierRun(text, i, TRUE, TRUE, FALSE).end = i THEN -1
               ELSE MultiplierRun(text, i, TRUE, TRUE, FALSE).end,
               IF MultiplierRun(text, i, TRUE, TRUE, FALSE).hasMultiplier
               THEN "SuffixedDecimal" ELSE "Decimal")

\* readInteger from offset i
readIntegerRelaxed(text, i, f) ==
    IF Permit(f, MultiplierSuffixes)
    THEN NumberPart(IF MultiplierRun(text, i, TRUE, TRUE, FALSE).end = i THEN -1
                    ELSE MultiplierRun(text, i, TRUE, TRUE, FALSE).end,
                    IF MultiplierRun(text, i, TRUE, TRUE, FALSE).hasMultiplier
                    THEN "SuffixedDecimal" ELSE "Decimal")
    ELSE NumberPart(IntegerEnd(text, i), "Decimal")

\* readSignedInteger from offset i
readSignedIntegerRelaxed(text, i, f) ==
    IF ~Peeked(Peek(text, i)) THEN NumberPart(-1, "Unknown")
    ELSE IF Peek(text, i).r \in {43, 45} THEN readIntegerRelaxed(text, i + 1, f)
    ELSE readIntegerRelaxed(text, i, f)

\* readDecimal with the signed integer n read: the fraction, whose TokenID
\* takes the place of the integer's
readFraction(text, n, f) ==
    IF n.end < 0 THEN n
    ELSE IF Peeked(Peek(text, n.end)) /\ Peek(text, n.end).r = 46
    THEN readIntegerRelaxed(text, n.end + 1, f)
    ELSE n

\* the exponent, whose TokenID is dropped
readExponent(text, n, f) ==
    IF n.end < 0 THEN n
    ELSE IF Peeked(Peek(text, n.end)) /\ Peek(text, n.end).r \in {101, 69}
    THEN NumberPart(readSignedIntegerRelaxed(text, n.end + 1, f).end, n.id)
    ELSE n

\* the separator that has to follow
readDecimalEndRelaxed(text, i, n) ==
    IF n.end < 0 THEN ScanFail
    ELSE IF Peeked(Peek(text, n.end)) /\ ~isSeparator(Peek(text, n.end).r) THEN ScanFail
    ELSE ScanOK(n.id, text, i, n.end)

readDecimalRelaxed(text, i, f) ==
    readDecimalEndRelaxed(text, i,
        readExponent(text, readFraction(text, readSignedIntegerRelaxed(text, i, f), f), f))

\* the token after a sign, and after a '0'
readSignedRelaxed(text, i, p2, f) ==
    IF ~Peeked(p2) THEN PeekTwoFailed(p2, i)
    ELSE IF isDigit(p2.r) THEN readDecimalRelaxed(text, i, f)
    ELSE readIdentifierRelaxed(text, i, f)

readZeroRelaxed(text, i, p2, f) ==
    IF ~Peeked(p2) THEN PeekTwoFailed(p2, i)
    ELSE IF p2.r \in {120, 111, 98} THEN readZero(text, i, p2)
    ELSE readDecimalRelaxed(text, i, f)

readNextRelaxed(text, i, f) ==
    LET p == Peek(text, i)
        p2 == Peek(text, i + p.size) IN
    IF p.size = 0 THEN ScanEOF(i)
    ELSE IF p.r = RuneError THEN ScanFail
    ELSE IF isWhiteSpace(p.r) THEN ScanRun("Whitespace", text, i, RunEnd(text, i, "white"), 1)
    ELSE IF p.r = 13
    THEN ScanOK("Newline", text, i, IF Peeked(p2) /\ p2.r = 10 THEN i + 2 ELSE i + 1)
    ELSE IF isNewline(p.r) THEN ScanOK("Newline", text, i, i + p.size)
    ELSE IF p.r = chSlash THEN readSlash(text, i, p2)
    ELSE IF Punctuation(p.r) # "Unknown" THEN ScanOK(Punctuation(p.r), text, i, i + 1)
    ELSE IF p.r \in {43, 45} THEN readSignedRelaxed(text, i, p2, f)
    ELSE IF p.r = 48 THEN readZeroRelaxed(text, i, p2, f)
    ELSE IF isDigit(p.r) THEN readDecimalRelaxed(text, i, f)
    ELSE IF p.r = 58 /\ Permit(f, YAMLTOMLAssignments) THEN ScanOK("Whitespace", text, i, i + 1)
    ELSE readIdentifierRelaxed(text, i, f)

\* the loop of kdl.parse with a Scanner whose RelaxedNonCompliant is f
RECURSIVE ParseLoopRelaxed(_, _, _, _)
RECURSIVE ParseStepRelaxed(_, _, _, _)
ParseLoopRelaxed(cx, text, sc, f) ==
    IF sc.status = "error"
    THEN [c |-> cx, err |-> [msg |-> "scan error", Line |-> 0]]
    ELSE ParseStepRelaxed(Parse(cx, sc.tok), text, sc, f)

ParseStepRelaxed(r, text, sc, f) ==
    IF r.err # NoErr \/ sc.status = "eof" THEN r
    ELSE ParseLoopRelaxed(r.c, text, readNextRelaxed(text, sc.next, f), f)

ParseTextRelaxed(text, f) ==
    ParseLoopRelaxed(NewContextOptions([RelaxedNonCompliant |-> f]), text,
                     readNextRelaxed(text, 0, f), f)

(***************************************************************************)
(* document: Value.value, Value.string, Properties.String and              *)
(* Node.WriteToOptions; generator: Generate with DefaultOptions.           *)
(* valueOpts is the set of the options that are set.  Comments are not     *)
(* attached to nodes (ParseComments is off), so the comment branches of    *)
(* WriteToOptions are not taken.                                           *)
(***************************************************************************)
\* strconv.AppendInt
AppendInt(n, base) ==
    IF n < 0 THEN <<45>> \o AppendUint(0 - n, base) ELSE AppendUint(n, base)

\* b without its leading zeros, one digit at least
RECURSIVE TrimLeadingZeros(_)
TrimLeadingZeros(b) ==
    IF Len(b) > 1 /\ Head(b) = 48 THEN TrimLeadingZeros(Tail(b)) ELSE b

RECURSIVE TrimTrailingZeros(_)
TrimTrailingZeros(b) ==
    IF Len(b) > 0 /\ b[Len(b)] = 48 THEN TrimTrailingZeros(SubSeq(b, 1, Len(b) - 1)) ELSE b

\* the float64 branch of Value.value for a float read from the text s, s
\* being sign, digits, '.', digits with no exponent, at most 9 digits before
\* the point and 9 after it: strconv.AppendFloat(b, x, 'f', -1, 64) writes
\* the shortest decimal text of x, and ".0" follows when x is whole
AppendFloat(s) ==
    LET neg == s[1] = 45
        body == IF s[1] \in {43, 45} THEN Tail(s) ELSE s
        dot == IndexByte(body, 46)
        whole == TrimLeadingZeros(Slice(body, 0, dot))
        frac == TrimTrailingZeros(Slice(body, dot + 1, Len(body)))
    IN (IF neg THEN <<45>> ELSE << >>) \o whole
       \o (IF frac = << >> THEN <<46, 48>> ELSE <<46>> \o frac)

\* "base" when the switch on v.Flag is not there
NumericBaseMutant(v, opts) == 10

\* "base" and "prefix" after the switch on v.Flag
NumericBase(v, opts) ==
    IF "voUseNumericFlags" \notin opts THEN 10
    ELSE CASE v.Flag = "FlagBinary" -> 2
           [] v.Flag = "FlagOctal" -> 8
           [] v.Flag = "FlagHexadecimal" -> 16
           [] OTHER -> 10

NumericPrefix(base) ==
    CASE base = 2 -> <<48, 98>>
      [] base = 8 -> <<48, 111>>
      [] base = 16 -> <<48, 120>>
      [] OTHER -> << >>

\* b after the switch on v.Flag: "b = make([]byte, 0, 18)" under
\* FlagHexadecimal drops what the buffer held
NumericBuffer(b, v, opts) ==
    IF "voUseNumericFlags" \in opts /\ v.Flag = "FlagHexadecimal" THEN << >> ELSE b

\* the string case of Value.value
AppendString(b, v, opts) ==
    LET x == v.Value.s
        isBare == IsBareIdentifier(x) IN
    IF \/ v.Flag = "FlagBareSuffixed"
       \/ /\ "voNoBare" \notin opts
          /\ ("voNoQuotes" \in opts \/ (isBare /\ "voSimpleString" \in opts))
    THEN b \o x
    ELSE IF v.Flag = "FlagRaw" /\ "voStrictStringFlags" \in opts
    THEN AppendRawString(b, x)
    ELSE IF v.Flag = "FlagQuoted" \/ (v.Flag = "FlagRaw" /\ "voStrictStringFlags" \notin opts)
    THEN AppendQuotedString(b, x, chQuote)
    ELSE IF isBare /\ "voNoBare" \notin opts THEN b \o x
    ELSE AppendQuotedString(b, x, chQuote)

\* strconv.AppendInt of an int64 held by its digits, and big.Int.Append
AppendWide(x, base) ==
    (IF x.n < 0 THEN <<45>> ELSE << >>)
    \o DigitBytes(ToBase([i \in 1..Len(x.s) |-> x.s[i] - 48], 10, base))

\* the *big.Float case of Value.value, digits being the decimal digits
\* that identify the value: Append(b, 'f', 6) for zero, Append(b, 'E', -1)
\* for what lies beyond the float64
AppendBigFloat(b, x, digits) ==
    CASE digits = << >> -> b \o x.x \o <<48, 46, 48, 48, 48, 48, 48, 48>>
      [] digits # << >> /\ (x.n > 308 \/ x.n < 0 - 324) ->
            b \o x.x \o <<Head(digits)>>
            \o (IF Len(digits) > 1 THEN <<46>> \o Tail(digits) ELSE << >>)
            \o <<69, IF x.n < 0 THEN 45 ELSE 43>>
            \o AppendUint(IF x.n < 0 THEN 0 - x.n ELSE x.n, 10)

\* the decimal digits that Append(b, 'E', -1) writes for a *big.Float of 53
\* bits set from the digits sig: "the smallest number of decimal digits
\* necessary to identify the value uniquely".  Up to 15 digits come back as
\* they are; of more, 17 at most are written, and which ones is left open
\* behind the first 15 (digits that round up into the first 15 are not
\* among the inputs)
ShortestDigits(sig) ==
    IF Len(sig) <= 15 THEN {sig}
    ELSE {TrimZeros(SubSeq(sig, 1, 15) \o t) : t \in
              {<< >>} \cup {<<d>> : d \in 48..57} \cup {<<d, e>> : d \in 48..57, e \in 49..57}}

\* Value.value: the type switch after the flag switch
AppendValue(b, v, base, opts) ==
    CASE v.Value.k = "int" /\ v.Value.s = << >> ->
            b \o NumericPrefix(base) \o AppendInt(v.Value.n, base)
      [] v.Value.k = "int" /\ v.Value.s # << >> ->
            b \o NumericPrefix(base) \o AppendWide(v.Value, base)
      [] v.Value.k = "big.Int" -> b \o AppendWide(v.Value, base)
      [] v.Value.k = "big.Float" /\ Len(v.Value.s) <= 15 ->
            AppendBigFloat(b, v.Value, v.Value.s)
      [] v.Value.k = "float" -> b \o AppendFloat(v.Value.s)
      [] v.Value.k = "bool" ->
            b \o (IF v.Value.n = 1 THEN <<116, 114, 117, 101>> ELSE <<102, 97, 108, 115, 101>>)
      [] v.Value.k = "string" -> AppendString(b, v, opts)
      [] v.Value.k = "suffixed" -> b \o v.Value.s \o v.Value.x

value(b, v, opts) ==
    IF v.Value.k = "nil" THEN b \o <<110, 117, 108, 108>>
    ELSE AppendValue(NumericBuffer(b, v, opts), v, NumericBase(v, opts), opts)

\* Value.string
string(v, opts) ==
    value(IF Len(v.Type) > 0 THEN <<40>> \o v.Type \o <<41>> ELSE << >>, v, opts)

FormattedString(v) == string(v, {"voNoBare", "voUseNumericFlags"})

NodeNameString(v) == string(v, {"voSimpleString"})

\* the loop of Properties.String over the keys order[i..]
RECURSIVE PropertiesFrom(_, _)
PropertiesFrom(p, i) ==
    IF i > Len(p.order) THEN << >>
    ELSE LET k == p.order[i] IN
         <<32>>
         \o (IF Len(k) > 0 /\ IsBareIdentifier(k) THEN k
             ELSE AppendQuotedString(<< >>, k, chQuote))
         \o <<61>> \o FormattedString(p.props[k])
         \o PropertiesFrom(p, i + 1)

PropertiesString(p) == PropertiesFrom(p, 1)

\* the loop over n.Arguments
RECURSIVE ArgumentsFrom(_, _)
ArgumentsFrom(args, i) ==
    IF i > Len(args) THEN << >>
    ELSE <<32>> \o FormattedString(args[i]) \o ArgumentsFrom(args, i + 1)

\* Node.WriteToOptions with LeadingTrailingSpace and NameAndType, on node n
\* of the heap; opts holds Depth and Indent.  generateNodes is the loop
\* over a list of nodes (Children, or Document.Nodes) from its i-th on
RECURSIVE WriteToOptionsWith(_, _, _)
RECURSIVE generateNodes(_, _, _, _)
\* the children written with the Depth of their parent
WriteToOptionsWithMutant(nodes, n, opts) ==
    LET node == nodes[n]
        indent == BytesRepeat(opts.Indent, opts.Depth) IN
    indent
    \o (IF Len(node.Type) > 0 THEN <<40>> \o node.Type \o <<41>> ELSE << >>)
    \o NodeNameString(node.Name[1])
    \o ArgumentsFrom(node.Arguments, 1)
    \o (IF Len(node.Properties.order) > 0 THEN PropertiesString(node.Properties) ELSE << >>)
    \o (IF Len(node.Children) > 0
        THEN <<32, chBraceOpen, 10>> \o generateNodes(nodes, node.Children, 1, opts)
             \o indent \o <<chBraceClose>>
        ELSE << >>)
    \o <<10>>

WriteToOptionsWith(nodes, n, opts) ==
    LET node == nodes[n]
        indent == BytesRepeat(opts.Indent, opts.Depth) IN
    indent
    \o (IF Len(node.Type) > 0 THEN <<40>> \o node.Type \o <<41>> ELSE << >>)
    \o NodeNameString(node.Name[1])
    \o ArgumentsFrom(node.Arguments, 1)
    \o (IF Len(node.Properties.order) > 0 THEN PropertiesString(node.Properties) ELSE << >>)
    \o (IF Len(node.Children) > 0
        THEN <<32, chBraceOpen, 10>>
             \o generateNodes(nodes, node.Children, 1, [opts EXCEPT !.Depth = opts.Depth + 1])
             \o indent \o <<chBraceClose>>
        ELSE << >>)
    \o <<10>>

generateNodes(nodes, list, i, opts) ==
    IF i > Len(list) THEN << >>
    ELSE WriteToOptionsWith(nodes, list[i], opts) \o generateNodes(nodes, list, i + 1, opts)

\* the same with the indent "\t" of DefaultOptions
WriteToOptions(nodes, n, depth) ==
    WriteToOptionsWith(nodes, n, [Depth |-> depth, Indent |-> <<9>>])

WriteNodes(nodes, list, i, depth) ==
    generateNodes(nodes, list, i, [Depth |-> depth, Indent |-> <<9>>])

\* Generator.Generate on the Document of context cx
Generate(cx) == WriteNodes(cx.nodes, cx.doc, 1, 0)

\* NewOptions(w, options).Generate on the Document of context cx
GenerateOptions(cx, options) ==
    generateNodes(cx.nodes, cx.doc, 1, [Depth |-> 0, Indent |-> options.Indent])

(***************************************************************************)
(* A caller that parses a text, generates the document, parses what was    *)
(* generated and generates again.                                          *)
(*   rt  phase is where the caller is: "input" (rt.input is to be parsed), *)
(*       "rejected" (it did not parse), "parsed", "written" (rt.first is   *)
(*       the text generated from the document), "unreadable" (rt.first did *)
(*       not parse), "reparsed", "rewritten" (rt.second is the text        *)
(*       generated from the second document)                               *)
(* c holds the context of the last parse and ret what it returned.         *)
(***************************************************************************)
\* node names, with and without a type annotation
RoundTripNames ==
    {<<110>>,                                     \* n
     <<40, 116, 41, 110>>,                        \* (t)n
     <<34, 97, 32, 98, 34>>,                      \* "a b"
     <<34, 116, 114, 117, 101, 34>>}              \* "true"

\* arguments and properties, each behind a space
RoundTripItems ==
    {<<32, 34, 115, 34>>,                         \* "s"
     <<32, 34, 92, 110, 34>>,                     \* "\n"
     <<32, 34, 92, 117, 123, 49, 125, 34>>,       \* "\u{1}"
     <<32, 34, 92, 117, 123, 101, 57, 125, 34>>,  \* "\u{e9}"
     <<32, 114, 34, 115, 34>>,                    \* r"s"
     <<32, 114, 35, 34, 34, 34, 35>>,             \* r#"""#
     <<32, 98>>,                                  \* b
     <<32, 45, 49>>,                              \* -1
     <<32, 48, 120, 70, 70>>,                     \* 0xFF
     <<32, 40, 116, 41, 48, 120, 49, 102>>,       \* (t)0x1f
     <<32, 40, 116, 41, 48, 98, 49>>,             \* (t)0b1
     <<32, 49, 46, 53, 48>>,                      \* 1.50
     <<32, 116, 114, 117, 101>>,                  \* true
     <<32, 110, 117, 108, 108>>,                  \* null
     <<32, 107, 61, 49>>,                         \* k=1
     <<32, 34, 107, 32, 107, 34, 61, 34, 118, 34>>}   \* "k k"="v"

\* what ends the node: a newline, a children block, a '/-' node behind it
RoundTripTails ==
    {<<10>>,
     <<32, 123, 10, 99, 32, 49, 10, 125, 10>>,    \* {\nc 1\n}\n
     <<10, 47, 45, 100, 10>>}                     \* \n/-d\n

MaxRoundTripItems == 2

RECURSIVE ItemRuns(_)
ItemRuns(n) ==
    IF n = 0 THEN {<< >>}
    ELSE LET shorter == ItemRuns(n - 1) IN
         shorter \cup {run \o item : run \in shorter, item \in RoundTripItems}

RoundTripInputs ==
    {name \o items \o tail :
        name \in RoundTripNames, items \in ItemRuns(MaxRoundTripItems), tail \in RoundTripTails}

RoundTripInit ==
    /\ ParserIdle
    /\ TokenizerIdle
    /\ codec = NoCodec
    /\ \E text \in RoundTripInputs : rt = [NoRoundTrip EXCEPT !.phase = "input", !.input = text]

\* what kdl.Parse returns for the outcome r of the loop
Returned(r) == IF r.err # NoErr THEN ReturnError(r.err) ELSE ReturnDocument

\* doc, err := kdl.Parse(input)
ParsedAs(r, good, bad) ==
    /\ c' = r.c
    /\ ret' = Returned(r)
    /\ rt' = [rt EXCEPT !.phase = IF r.err # NoErr THEN bad ELSE good]

ParseInput ==
    /\ rt.phase = "input"
    /\ ParsedAs(ParseText(rt.input), "parsed", "rejected")
    /\ UNCHANGED <<token, scanner, pc, g, codec, tokenizerVars>>

\* first := Generate(doc)
GenerateFirst ==
    /\ rt.phase = "parsed"
    /\ rt' = [rt EXCEPT !.phase = "written", !.first = Generate(c)]
    /\ UNCHANGED <<c, token, scanner, pc, ret, g, codec, tokenizerVars>>

\* doc, err = kdl.Parse(first)
ParseFirst ==
    /\ rt.phase = "written"
    /\ ParsedAs(ParseText(rt.first), "reparsed", "unreadable")
    /\ UNCHANGED <<token, scanner, pc, g, codec, tokenizerVars>>

\* second := Generate(doc)
GenerateSecond ==
    /\ rt.phase = "reparsed"
    /\ rt' = [rt EXCEPT !.phase = "rewritten", !.second = Generate(c)]
    /\ UNCHANGED <<c, token, scanner, pc, ret, g, codec, tokenizerVars>>

RoundTripNext ==
    \/ ParseInput
    \/ GenerateFirst
    \/ ParseFirst
    \/ GenerateSecond

SpecRoundTrip == RoundTripInit /\ [][RoundTripNext]_vars

(***************************************************************************)
(* The same caller with a document of nested nodes and a Generator made    *)
(* with NewOptions: lab holds the Indent of its Options.                   *)
(***************************************************************************)
MaxTreeNodes == 4

\* the texts of the lists of nodes named a or b, with k nodes in all, their
\* children counted
RECURSIVE ForestTexts(_)
NodeTexts(name, inside) ==
    IF inside = << >> THEN name \o <<10>>
    ELSE name \o <<32, chBraceOpen, 10>> \o inside \o <<chBraceClose, 10>>

ForestTexts(k) ==
    IF k = 0 THEN {<< >>}
    ELSE UNION {{NodeTexts(name, inside) \o behind :
                    name \in {<<97>>, <<98>>},
                    inside \in ForestTexts(j),
                    behind \in ForestTexts(k - 1 - j)} : j \in 0..(k - 1)}

\* a tab, two spaces, a space
IndentUnits == {<<9>>, <<32, 32>>, <<32>>}

IndentInit ==
    /\ ParserIdle
    /\ codec = NoCodec
    /\ preload = << >>
    /\ stream = << >>
    /\ staticScan = << >>
    /\ calls = << >>
    /\ \E k \in 0..MaxTreeNodes, unit \in IndentUnits :
           /\ lab = [phase |-> "indent", Indent |-> unit]
           /\ \E text \in ForestTexts(k) :
                  rt = [NoRoundTrip EXCEPT !.phase = "input", !.input = text]

\* first := the text that NewOptions(w, Options{Indent: unit}).Generate(doc) writes
GenerateIndented ==
    /\ lab.phase = "indent"
    /\ rt.phase = "parsed"
    /\ rt' = [rt EXCEPT !.phase = "written", !.first = GenerateOptions(c, lab)]
    /\ UNCHANGED <<c, token, scanner, pc, ret, g, codec, tokenizerVars>>

IndentNext ==
    \/ ParseInput
    \/ GenerateIndented

SpecIndent == IndentInit /\ [][IndentNext]_vars

(***************************************************************************)
(* The same caller with the texts of a node n that has one argument, a     *)
(* number written with a radix prefix.                                     *)
(***************************************************************************)
MaxRadixDigits == 3

\* 0, 1, 7, F, f and '_'
RadixDigits == {48, 49, 55, 70, 102, 95}

\* 0x, 0o or 0b and up to MaxRadixDigits digits
RadixLiterals ==
    {<<48, p>> \o ds : p \in {120, 111, 98},
                       ds \in UNION {[1..k -> RadixDigits] : k \in 1..MaxRadixDigits}}

\* "n ", the literal, and the end of the input or a newline
RadixInputs == {<<110, 32>> \o lit \o tail : lit \in RadixLiterals, tail \in {<< >>, <<10>>}}

RadixInit ==
    /\ ParserIdle
    /\ TokenizerIdle
    /\ codec = NoCodec
    /\ \E text \in RadixInputs : rt = [NoRoundTrip EXCEPT !.phase = "input", !.input = text]

SpecRadix == RadixInit /\ [][RoundTripNext]_vars

(***************************************************************************)
(* tokenizer: the Scanner over its buffer (scanner.go).                    *)
(* A Scanner is the record of the struct's fields.  The byte arrays that   *)
(* its slices point into are kept with it: mem is the sequence of arrays   *)
(* allocated so far, arr the index of the array under raw and input (0:    *)
(* nil slices); raw is mem[arr][0:rawLen] and input is raw[off:].  len is  *)
(* the field s.len.  r is the io.Reader: live is FALSE for a nil reader,   *)
(* rest the bytes the reader has not delivered yet.  err is "nil" or names *)
(* the error.  A slice handed out by the Scanner is the record [arr, lo,   *)
(* hi, bytes]: it points at mem[arr][lo:hi], or owns its bytes if arr = 0; *)
(* bytes is what it held when it was handed out.                           *)
(***************************************************************************)
UTFMax == 4

NoReader == [live |-> FALSE, rest |-> << >>]

NoData == [arr |-> 0, lo |-> 0, hi |-> 0, bytes |-> << >>]

\* io.ReadFull on a reader that still holds rest, into a buffer of want
\* bytes
ReadFull(rest, want) ==
    LET n == IF Len(rest) < want THEN Len(rest) ELSE want IN
    [n |-> n, data |-> Slice(rest, 0, n), rest |-> Slice(rest, n, Len(rest)),
     err |-> IF n = want THEN "nil" ELSE IF n = 0 THEN "EOF" ELSE "ErrUnexpectedEOF"]

\* the array dst after src has been written to it from index at on
WriteAt(dst, at, src) ==
    [i \in 1..Len(dst) |->
        IF i > at /\ i <= at + Len(src) THEN src[i - at] ELSE dst[i]]

\* the field err of a Scanner: nil, io.EOF, or an error of readNext with
\* the line and column that annotatedError has put into it
ScanErr(kind, line, column) == [kind |-> kind, line |-> line, column |-> column]

newScanner ==
    [mem |-> << >>, arr |-> 0, rawLen |-> 0, off |-> 0, len |-> 0,
     peeked |-> << >>, line |-> 0, column |-> 0, marks |-> << >>,
     r |-> NoReader, err |-> ScanErr("nil", 0, 0), token |-> [ID |-> "Unknown", Data |-> NoData,
                                               Line |-> 0, Column |-> 0]]

\* s.raw up to its capacity, s.raw and s.input
Array(s) == IF s.arr = 0 THEN << >> ELSE s.mem[s.arr]

Raw(s) == Slice(Array(s), 0, s.rawLen)

Input(s) == Slice(Array(s), s.off, s.rawLen)

\* the bytes a slice handed out by s points at now
View(s, d) == IF d.arr = 0 THEN d.bytes ELSE Slice(s.mem[d.arr], d.lo, d.hi)

NewSlice(input) ==
    [newScanner EXCEPT !.mem = <<input>>, !.arr = 1, !.rawLen = Len(input),
                       !.len = Len(input)]

\* NewBuffer(r, b) with r a reader of data and b a buffer of size bytes
NewBuffer(data, size) ==
    LET rd == ReadFull(data, size) IN
    IF rd.err = "EOF" THEN [newScanner EXCEPT !.err = ScanErr("EOF", 0, 0)]
    ELSE [newScanner EXCEPT
              !.mem = <<WriteAt(Repeat(0, size), 0, rd.data)>>,
              !.arr = 1, !.rawLen = rd.n, !.len = rd.n,
              !.r = IF rd.err = "nil" THEN [live |-> TRUE, rest |-> rd.rest]
                    ELSE NoReader]

\* Scanner.refill: the bytes kept are moved to the front of the array and
\* the marks are set to their new offsets before the reader is read; when
\* the reader has nothing left at all the function returns there
refill(s) ==
    IF ~s.r.live THEN s
    ELSE
    LET old == Array(s)
        unreadLen == s.rawLen - s.off
        marked == Len(s.marks) > 0
        oldestMark == IF marked THEN s.marks[1] ELSE 0
        retainLen == IF marked THEN s.rawLen - oldestMark ELSE unreadLen
        inputOffset == IF marked THEN retainLen - unreadLen ELSE 0
        \* copy(raw, s.raw[oldestMark:]) or copy(raw, s.input)
        shifted == WriteAt(old, 0, IF marked THEN Slice(old, oldestMark, s.rawLen)
                                   ELSE Input(s))
        grown == marked /\ retainLen > (Len(old) * 3) \div 4
        raw == IF grown THEN shifted \o Repeat(0, Len(old)) ELSE shifted
        marks == [k \in 1..Len(s.marks) |-> s.marks[k] - oldestMark]
        rd == ReadFull(s.r.rest, Len(raw) - retainLen)
        read == WriteAt(raw, retainLen, rd.data)
        moved == [s EXCEPT !.mem[s.arr] = shifted, !.marks = marks]
    IN IF rd.err = "EOF"
       THEN [moved EXCEPT !.err = ScanErr("EOF", 0, 0), !.r = NoReader]
       ELSE [moved EXCEPT
                 !.mem = IF grown THEN Append(moved.mem, read)
                         ELSE [moved.mem EXCEPT ![s.arr] = read],
                 !.arr = IF grown THEN Len(moved.mem) + 1 ELSE s.arr,
                 !.r = IF rd.err = "nil" THEN [live |-> TRUE, rest |-> rd.rest]
                       ELSE NoReader,
                 !.len = unreadLen + rd.n,
                 !.rawLen = retainLen + rd.n,
                 !.off = inputOffset]

\* peekSize that takes the rune out of the input
peekSizeMutant(s) ==
    IF Len(s.peeked) = 0
    THEN LET d == DecodeRune(Input(s)) IN
         IF d.size = 0 THEN [s |-> s, c |-> 0, size |-> 0, err |-> "EOF"]
         ELSE IF d.r = RuneError
         THEN [s |-> s, c |-> 0, size |-> 0, err |-> "ErrInvalidRune"]
         ELSE [s |-> [s EXCEPT !.off = @ + d.size, !.len = @ - d.size],
               c |-> d.r, size |-> d.size, err |-> "nil"]
    ELSE [s |-> s, c |-> s.peeked[1].c, size |-> s.peeked[1].size, err |-> "nil"]

\* peekSize: the scanner with the rune kept in peeked, the rune, its size
\* and the error
peekSize(s) ==
    IF Len(s.peeked) = 0
    THEN LET d == DecodeRune(Input(s)) IN
         IF d.size = 0 THEN [s |-> s, c |-> 0, size |-> 0, err |-> "EOF"]
         ELSE IF d.r = RuneError
         THEN [s |-> s, c |-> 0, size |-> 0, err |-> "ErrInvalidRune"]
         ELSE [s |-> [s EXCEPT !.peeked = <<[c |-> d.r, size |-> d.size]>>],
               c |-> d.r, size |-> d.size, err |-> "nil"]
    ELSE [s |-> s, c |-> s.peeked[1].c, size |-> s.peeked[1].size, err |-> "nil"]

\* the loop of peekTwoSize
RECURSIVE peekTwoLoop(_, _)
peekTwoLoop(s, peekedSize) ==
    IF Len(s.peeked) >= 2 THEN [s |-> s, err |-> "nil"]
    ELSE LET d == DecodeRune(Slice(Input(s), peekedSize, Len(Input(s)))) IN
         IF d.size = 0 THEN [s |-> s, err |-> "EOF"]
         ELSE IF d.r = RuneError THEN [s |-> s, err |-> "ErrInvalidRune"]
         ELSE peekTwoLoop([s EXCEPT !.peeked = Append(@, [c |-> d.r, size |-> d.size])],
                          peekedSize + d.size)

peekTwoSize(s) ==
    LET p == peekTwoLoop(s, IF Len(s.peeked) = 1 THEN s.peeked[1].size ELSE 0) IN
    IF p.err # "nil"
    THEN [s |-> p.s, c1 |-> 0, size1 |-> 0, c2 |-> 0, size2 |-> 0, err |-> p.err]
    ELSE [s |-> p.s, c1 |-> p.s.peeked[1].c, size1 |-> p.s.peeked[1].size,
          c2 |-> p.s.peeked[2].c, size2 |-> p.s.peeked[2].size, err |-> "nil"]

\* get once it has the rune: the line and column counted, "s.input =
\* s.input[size:]" and "s.len -= size"
Consumed(s, ch, size) ==
    [s EXCEPT !.line = IF isNewline(ch) THEN @ + 1 ELSE @,
              !.column = IF isNewline(ch) THEN 1 ELSE @ + 1,
              !.off = @ + size,
              !.len = @ - size]

\* get once the buffer has been looked after
getRune(s) ==
    IF Len(s.peeked) > 0
    THEN [s |-> Consumed([s EXCEPT !.peeked = Tail(@)], s.peeked[1].c, s.peeked[1].size),
          c |-> s.peeked[1].c, size |-> s.peeked[1].size, err |-> "nil"]
    ELSE LET d == DecodeRune(Input(s)) IN
         IF d.size = 0 THEN [s |-> s, c |-> 0, size |-> 0, err |-> "EOF"]
         ELSE IF d.r = RuneError
         THEN [s |-> s, c |-> 0, size |-> 0, err |-> "ErrInvalidRune"]
         ELSE [s |-> Consumed(s, d.r, d.size), c |-> d.r, size |-> d.size, err |-> "nil"]

\* get: the scanner, the rune and its size, and the error
get(s) == getRune(IF s.len <= UTFMax * 2 THEN refill(s) ELSE s)

skip(s) == get(s).s

copyInput(s, size) ==
    LET bytes == Slice(Input(s), 0, size) IN
    IF ~s.r.live
    THEN [arr |-> s.arr, lo |-> s.off, hi |-> s.off + size, bytes |-> bytes]
    ELSE [arr |-> 0, lo |-> 0, hi |-> 0, bytes |-> bytes]

\* len(s.raw) - len(s.input) is the offset of input in raw
pushMark(s) == [s EXCEPT !.marks = Append(@, s.off)]

popMark(s) ==
    IF Len(s.marks) > 0 THEN [s EXCEPT !.marks = SubSeq(@, 1, Len(@) - 1)] ELSE s

copyFromMark(s) ==
    LET p == s.marks[Len(s.marks)] IN
    [arr |-> s.arr, lo |-> p, hi |-> s.off, bytes |-> Slice(Raw(s), p, s.off)]


(***************************************************************************)
(* tokenizer: the readers over the buffer (scanner.go, readtype.go) with   *)
(* no relaxed flag set.  A reader leaves [s, id, lit, err]: the scanner,   *)
(* the token kind where the reader sets one, the slice read and the error. *)
(* The closures that readWhile is called with are records [kind, ...] of   *)
(* the variables they capture.  A reader is written as a chain of          *)
(* operators, each taking what the call before it returned.  The readers   *)
(* of comments, raw strings and numbers with a base are not among them:    *)
(* the inputs scanned here hold no '/', no 0x, 0o or 0b and no r" or r#.   *)
(***************************************************************************)
Read(s, id, lit, err) == [s |-> s, id |-> id, lit |-> lit, err |-> err]

WithID(r, id) == [r EXCEPT !.id = id]

\* "defer s.popMark()"
Deferred(r) == [r EXCEPT !.s = popMark(r.s)]

\* the closure called with ch: whether the rune is taken, and the closure
\* after the call
validRune(cl, ch) ==
    CASE cl.kind = "isWhiteSpace" -> [ok |-> isWhiteSpace(ch), cl |-> cl]
      [] cl.kind = "isBareIdentifierChar" -> [ok |-> isBareIdentifierChar(ch), cl |-> cl]
      [] cl.kind = "readInteger" ->
            [ok |-> isDigit(ch) \/ (~cl.first /\ ch = 95), cl |-> [cl EXCEPT !.first = FALSE]]
      [] cl.kind = "readQuotedStringQ" ->
            IF cl.first THEN [ok |-> TRUE, cl |-> [cl EXCEPT !.first = FALSE]]
            ELSE IF cl.done THEN [ok |-> FALSE, cl |-> cl]
            ELSE IF ch = chBackslash
            THEN [ok |-> TRUE, cl |-> [cl EXCEPT !.escaped = ~cl.escaped]]
            ELSE IF ch = chQuote
            THEN [ok |-> TRUE,
                  cl |-> IF cl.escaped THEN [cl EXCEPT !.escaped = FALSE]
                         ELSE [cl EXCEPT !.done = TRUE]]
            ELSE [ok |-> TRUE, cl |-> [cl EXCEPT !.escaped = FALSE]]

Closure(kind) == [kind |-> kind, first |-> TRUE, escaped |-> FALSE, done |-> FALSE]

RECURSIVE readWhileLoop(_, _, _, _)

\* readWhile at "literal := s.copyFromMark()"
readWhileEnd(s, literal, minLength) ==
    IF Len(literal.bytes) < minLength THEN Read(s, "Unknown", NoData, "ErrEndOfToken")
    ELSE Read(s, "Unknown", literal, "nil")

\* one turn of the loop of readWhile: p is what peek returned and v what
\* validRune returned
readWhileRune(p, v, valid, minLength) ==
    IF p.err \notin {"nil", "EOF"} THEN Read(p.s, "Unknown", NoData, p.err)
    ELSE IF v.ok THEN readWhileLoop(skip(p.s), v.cl, TRUE, minLength)
    ELSE IF ~valid THEN Read(p.s, "Unknown", NoData, "unexpected character")
    ELSE readWhileEnd(p.s, copyFromMark(p.s), minLength)

readWhilePeeked(p, cl, valid, minLength) ==
    readWhileRune(p, IF p.err = "nil" THEN validRune(cl, p.c) ELSE [ok |-> FALSE, cl |-> cl],
                  valid, minLength)

readWhileLoop(s, cl, valid, minLength) == readWhilePeeked(peekSize(s), cl, valid, minLength)

readWhile(s, cl, minLength) == Deferred(readWhileLoop(pushMark(s), cl, FALSE, minLength))

readIntegerBuffered(s) == WithID(readWhile(s, Closure("readInteger"), 1), "Decimal")

\* readSignedInteger: r is what readInteger returned, p what peek returned
readSignedIntegerEnd(r) == Read(r.s, r.id, copyFromMark(r.s), r.err)

readSignedIntegerPeeked(p) ==
    IF p.err # "nil" THEN Read(p.s, "Unknown", NoData, p.err)
    ELSE readSignedIntegerEnd(readIntegerBuffered(IF p.c \in {43, 45} THEN skip(p.s) ELSE p.s))

readSignedIntegerBuffered(s) == Deferred(readSignedIntegerPeeked(peekSize(pushMark(s))))

\* readDecimal at its last peek, for the separator that has to follow
readDecimalEnd(p) ==
    IF p.err = "nil" /\ ~isSeparator(p.c)
    THEN Read(p.s, "Decimal", NoData, "unexpected character")
    ELSE Read(p.s, "Decimal", copyFromMark(p.s), "nil")

\* readDecimal with the exponent read
readDecimalAfterExponent(r) ==
    IF r.err # "nil" THEN Read(r.s, r.id, NoData, r.err) ELSE readDecimalEnd(peekSize(r.s))

\* readDecimal at the peek for 'e' or 'E'
readDecimalExponent(p) ==
    IF p.err = "nil" /\ p.c \in {101, 69}
    THEN readDecimalAfterExponent(readSignedIntegerBuffered(skip(p.s)))
    ELSE readDecimalEnd(peekSize(p.s))

\* readDecimal with the fraction read
readDecimalAfterFraction(r) ==
    IF r.err # "nil" THEN Read(r.s, r.id, NoData, r.err)
    ELSE readDecimalExponent(peekSize(r.s))

\* readDecimal at the peek for '.'
readDecimalFraction(p) ==
    IF p.err # "nil" THEN readDecimalEnd(peekSize(p.s))
    ELSE IF p.c = 46 THEN readDecimalAfterFraction(readIntegerBuffered(skip(p.s)))
    ELSE readDecimalExponent(peekSize(p.s))

\* readDecimal with the signed integer read
readDecimalInteger(r) ==
    IF r.err # "nil" THEN Read(r.s, r.id, NoData, r.err)
    ELSE readDecimalFraction(peekSize(r.s))

readDecimalBuffered(s) ==
    Deferred(readDecimalInteger(readSignedIntegerBuffered(pushMark(s))))

readQuotedStringPeeked(p) ==
    IF p.err = "EOF" THEN Read(p.s, "Unknown", NoData, "ErrUnexpectedEOF")
    ELSE IF p.err # "nil" THEN Read(p.s, "Unknown", NoData, p.err)
    ELSE IF p.c # chQuote THEN Read(p.s, "Unknown", NoData, "unexpected character")
    ELSE readWhile(p.s, Closure("readQuotedStringQ"), 2)

readQuotedStringBuffered(s) == readQuotedStringPeeked(peekSize(s))

\* readBareIdentifier: r is what readWhile returned
readBareIdentifierEnd(r) ==
    IF r.err # "nil" THEN Read(r.s, "Unknown", NoData, r.err)
    ELSE WithID(r, BareKind(r.lit.bytes))

\* readBareIdentifier once the first rune has been found fit
readBareIdentifierRun(s) ==
    readBareIdentifierEnd(readWhile(s, Closure("isBareIdentifierChar"), 1))

\* readBareIdentifier: p is what peek returned, p2 what peekTwo returned
\* after a sign
readBareIdentifierPeeked(p, p2) ==
    IF p.err = "EOF" THEN Read(p.s, "Unknown", NoData, "ErrUnexpectedEOF")
    ELSE IF p.err # "nil" THEN Read(p.s, "Unknown", NoData, p.err)
    ELSE IF p.c \in {43, 45} /\ p2.err = "EOF"
    THEN Read(p2.s, "Unknown", NoData, "ErrUnexpectedEOF")
    ELSE IF p.c \in {43, 45} /\ p2.err # "nil" THEN Read(p2.s, "Unknown", NoData, p2.err)
    ELSE IF p.c \in {43, 45} /\ isDigit(p2.c2)
    THEN Read(p2.s, "Unknown", NoData, "unexpected character")
    ELSE IF p.c \notin {43, 45} /\ ~isBareIdentifierStartChar(p.c)
    THEN Read(p.s, "Unknown", NoData, "unexpected character")
    ELSE readBareIdentifierRun(IF p.c \in {43, 45} THEN p2.s ELSE p.s)

readBareIdentifierBuffered(s) ==
    readBareIdentifierPeeked(peekSize(s), peekTwoSize(peekSize(s).s))

\* readIdentifier: p is what peek returned, p2 what peekTwo returned
readIdentifierPeeked(p, p2) ==
    IF p.err # "nil" THEN Read(p.s, "Unknown", NoData, p.err)
    ELSE IF p.c <= 32 \/ p.c > MaxRune
    THEN Read(p.s, "Unknown", NoData, "unexpected character")
    ELSE IF p.c = chQuote THEN WithID(readQuotedStringBuffered(p.s), "QuotedString")
    ELSE IF p.c \in {123, 125, 60, 62, 59, 91, 93, 61, 44, 92, 40, 41, 46, 95, 63, 47}
    THEN Read(p.s, "Unknown", NoData, "unexpected character")
    ELSE IF /\ p.c # chLowerR
            /\ p2.err = "nil"
            /\ ~isBareIdentifierStartChar(p.c)
            /\ ~(p.c = 45 /\ ~isDigit(p2.c2))
    THEN Read(p2.s, "Unknown", NoData, "unexpected character")
    ELSE CASE ~(p.c = chLowerR /\ p2.err = "nil" /\ p2.c2 \in {chHash, chQuote}) ->
              readBareIdentifierBuffered(p2.s)

readIdentifierBuffered(s) == readIdentifierPeeked(peekSize(s), peekTwoSize(peekSize(s).s))

\* the token that readNext starts from
NewToken(s) == [ID |-> "Unknown", Data |-> NoData, Line |-> s.line, Column |-> s.column]

\* what readNext returns
Next(s, tok, err) == [s |-> s, token |-> tok, err |-> err]

\* "token.ID = id; token.Data = s.copyInput(size)" and as many skips as
\* the token has runes
readPunctuation(s, tok, id, size, runes) ==
    Next(IF runes = 2 THEN skip(skip(s)) ELSE skip(s),
         [tok EXCEPT !.ID = id, !.Data = copyInput(s, size)], "nil")

\* "if token.ID, token.Data, err = s.readX(); err != nil { return token, err }"
readValue(tok, r) == Next(r.s, [tok EXCEPT !.ID = r.id, !.Data = r.lit], r.err)

\* "token.ID = Whitespace; token.Data = s.readWhitespace()"
readWhitespaceToken(tok, r) ==
    Next(r.s, [tok EXCEPT !.ID = "Whitespace", !.Data = r.lit], "nil")

\* the case '+', '-' of readNext, p2 being what peekTwo returned
readSignedBuffered(p2, tok) ==
    IF p2.err # "nil" THEN Next(p2.s, tok, p2.err)
    ELSE IF isDigit(p2.c2) THEN readValue(tok, readDecimalBuffered(p2.s))
    ELSE readValue(tok, readIdentifierBuffered(p2.s))

\* the case '0' of readNext
readZeroBuffered(p2, tok) ==
    IF p2.err # "nil" THEN Next(p2.s, tok, p2.err)
    ELSE CASE p2.c2 \notin {120, 111, 98} -> readValue(tok, readDecimalBuffered(p2.s))

\* the case '\r' of readNext with the LF behind a CR left for the next token
readCarriageReturnMutant(p2, tok, size) ==
    readPunctuation(p2.s, tok, "Newline", size, 1)

\* the case '\r' of readNext
readCarriageReturn(p2, tok, size) ==
    IF p2.err = "nil" /\ p2.c2 = 10
    THEN readPunctuation(p2.s, tok, "Newline", size + p2.size2, 2)
    ELSE readPunctuation(p2.s, tok, "Newline", size, 1)

\* the kind of a token that is one rune long and read by copyInput
PunctuationID(ch) ==
    CASE isNewline(ch) -> "Newline"
      [] ch = 40 -> "ParensOpen"
      [] ch = 41 -> "ParensClose"
      [] ch = 123 -> "BraceOpen"
      [] ch = 125 -> "BraceClose"
      [] ch = 61 -> "Equals"
      [] ch = 59 -> "Semicolon"
      [] ch = 92 -> "Continuation"

\* readNext with p what its peek returned
readNextPeeked(p, tok) ==
    IF p.err # "nil" THEN Next(p.s, tok, p.err)
    ELSE IF isWhiteSpace(p.c)
    THEN readWhitespaceToken(tok, readWhile(p.s, Closure("isWhiteSpace"), 1))
    ELSE IF p.c = 13 THEN readCarriageReturn(peekTwoSize(p.s), tok, p.size)
    ELSE IF isNewline(p.c) \/ p.c \in {40, 41, 123, 125, 61, 59, 92}
    THEN readPunctuation(p.s, tok, PunctuationID(p.c), p.size, 1)
    ELSE IF p.c \in {43, 45} THEN readSignedBuffered(peekTwoSize(p.s), tok)
    ELSE IF p.c = 48 THEN readZeroBuffered(peekTwoSize(p.s), tok)
    ELSE IF isDigit(p.c) THEN readValue(tok, readDecimalBuffered(p.s))
    ELSE CASE p.c # 47 -> readValue(tok, readIdentifierBuffered(p.s))

\* Scanner.readNext over the buffer
readNextBuffered(s) == readNextPeeked(peekSize(s), NewToken(s))

eofToken == [ID |-> "EOF", Data |-> NoData, Line |-> 0, Column |-> 0]

\* annotatedError: the error with the line and column of s.Pos()
annotatedError(s, err) == ScanErr(err, s.line + 1, s.column + 1)

\* "s.token, s.err = s.readNext()" and what Scan makes of the error
ScanToken(r) ==
    IF r.err = "nil"
    THEN [s |-> [r.s EXCEPT !.token = r.token, !.err = ScanErr("nil", 0, 0)], ok |-> TRUE]
    ELSE IF r.err = "EOF"
    THEN [s |-> [r.s EXCEPT !.token = eofToken, !.err = ScanErr("EOF", 0, 0)], ok |-> TRUE]
    ELSE [s |-> [r.s EXCEPT !.token = r.token, !.err = annotatedError(r.s, r.err)],
          ok |-> FALSE]

\* Scanner.Scan: the scanner and what Scan returns
Scan(s) ==
    IF s.err.kind # "nil"
    THEN [s |-> [s EXCEPT !.err = IF @.kind = "EOF" THEN ScanErr("nil", 0, 0) ELSE @],
          ok |-> FALSE]
    ELSE ScanToken(readNextBuffered(s))

(***************************************************************************)
(* A caller inside the package drives one Scanner by hand, as              *)
(* TestScanner_mark does: it peeks, gets, pushes and pops marks and asks   *)
(* for the bytes since the mark.  stream is the Scanner; lab is what the   *)
(* caller knows without looking into it: the input, how many of its bytes  *)
(* have been consumed (pos), the offsets in the input where it pushed its  *)
(* marks, the first rune peeked since the last get, whether the last call  *)
(* refilled the buffer, and the slice v that copyFromMark has just         *)
(* returned (the caller compares it at once and drops it).                 *)
(***************************************************************************)
BufferSize == 16

MaxInput == 20

MaxMarks == 2

\* the byte at offset i of the inputs: letters, now and then a space or a
\* newline, and one two-byte rune
InputByte(i) ==
    IF i = 5 THEN 195
    ELSE IF i = 6 THEN 169
    ELSE IF i % 7 = 3 THEN 32
    ELSE IF i % 9 = 2 THEN 10
    ELSE 97 + (i % 26)

InputText(n) == [i \in 1..n |-> InputByte(i - 1)]

\* inputs shorter than the buffer, filling it exactly and longer than it
InputLengths == {0, 1, BufferSize - 1, BufferSize, BufferSize + 1, MaxInput}

NoPeek == [seen |-> FALSE, c |-> 0]

MarksLab(text) ==
    [phase |-> "marks", text |-> text, pos |-> 0, marks |-> << >>, first |-> NoPeek,
     refilled |-> FALSE, v |-> NoData]

MarksInit ==
    /\ ParserIdle
    /\ codec = NoCodec
    /\ rt = NoRoundTrip
    /\ preload = << >>
    /\ staticScan = << >>
    /\ calls = << >>
    /\ \E n \in InputLengths :
           /\ lab = MarksLab(InputText(n))
           /\ \/ stream = NewSlice(InputText(n))
              \/ stream = NewBuffer(InputText(n), BufferSize)

FirstPeek(first, r) == IF r.err = "nil" /\ ~first.seen THEN [seen |-> TRUE, c |-> r.c] ELSE first

\* c, size, err := s.peekSize()
CallPeekSize ==
    /\ lab.phase = "marks"
    /\ LET r == peekSize(stream) IN
       /\ stream' = r.s
       /\ lab' = [lab EXCEPT !.first = FirstPeek(@, r), !.refilled = FALSE, !.v = NoData]
    /\ UNCHANGED <<parserVars, codec, rt, preload, staticScan, calls>>

\* c1, _, c2, _, err := s.peekTwoSize()
CallPeekTwoSize ==
    /\ lab.phase = "marks"
    /\ LET r == peekTwoSize(stream) IN
       /\ stream' = r.s
       /\ lab' = [lab EXCEPT !.first = FirstPeek(@, [c |-> r.c1, err |-> r.err]),
                             !.refilled = FALSE, !.v = NoData]
    /\ UNCHANGED <<parserVars, codec, rt, preload, staticScan, calls>>

\* c, err := s.get()
CallGet ==
    /\ lab.phase = "marks"
    /\ LET r == get(stream) IN
       /\ stream' = r.s
       /\ lab' = [lab EXCEPT !.pos = @ + r.size,
                             !.first = IF r.err = "nil" THEN NoPeek ELSE @,
                             !.refilled = stream.len <= UTFMax * 2 /\ stream.r.live,
                             !.v = NoData]
    /\ UNCHANGED <<parserVars, codec, rt, preload, staticScan, calls>>

\* s.pushMark()
CallPushMark ==
    /\ lab.phase = "marks"
    /\ Len(stream.marks) < MaxMarks
    /\ stream' = pushMark(stream)
    /\ lab' = [lab EXCEPT !.marks = Append(@, lab.pos), !.refilled = FALSE,
                          !.v = NoData]
    /\ UNCHANGED <<parserVars, codec, rt, preload, staticScan, calls>>

\* s.popMark()
CallPopMark ==
    /\ lab.phase = "marks"
    /\ stream' = popMark(stream)
    /\ lab' = [lab EXCEPT !.marks = IF Len(@) > 0 THEN SubSeq(@, 1, Len(@) - 1) ELSE @,
                          !.refilled = FALSE, !.v = NoData]
    /\ UNCHANGED <<parserVars, codec, rt, preload, staticScan, calls>>

\* v := s.copyFromMark(), which needs a mark
CallCopyFromMark ==
    /\ lab.phase = "marks"
    /\ Len(stream.marks) > 0
    /\ lab' = [lab EXCEPT !.v = copyFromMark(stream), !.refilled = FALSE]
    /\ UNCHANGED <<parserVars, codec, rt, preload, stream, staticScan, calls>>

MarksNext ==
    \/ CallPeekSize
    \/ CallPeekTwoSize
    \/ CallGet
    \/ CallPushMark
    \/ CallPopMark
    \/ CallCopyFromMark

SpecMarks == MarksInit /\ [][MarksNext]_vars

(***************************************************************************)
(* One input is scanned twice in step, as TestScanner_refill does: by      *)
(* preload, a Scanner over the whole input, and by stream, a Scanner that  *)
(* reads it through a buffer.  lab holds the caller's locals: the input,   *)
(* the number of rounds done, whose turn it is, what the two calls of Scan *)
(* returned (pb, ps), and the tokens that stream has returned so far.      *)
(***************************************************************************)
MaxWords == 4

MaxScans == 8

\* the words the inputs are made of: a space, a newline, '=', a, 12, node,
\* "s" and identifier
ScanWords ==
    {<<32>>, <<10>>, <<61>>, <<97>>, <<49, 50>>, <<110, 111, 100, 101>>, <<34, 115, 34>>,
     <<105, 100, 101, 110, 116, 105, 102, 105, 101, 114>>}

\* the words of ws one after the other
RECURSIVE Concat(_)
Concat(ws) == IF Len(ws) = 0 THEN << >> ELSE Head(ws) \o Concat(Tail(ws))

\* the inputs of up to MaxWords words
ScanTexts == UNION {{Concat(ws) : ws \in [1..k -> ScanWords]} : k \in 0..MaxWords}

LockstepInit ==
    /\ ParserIdle
    /\ codec = NoCodec
    /\ rt = NoRoundTrip
    /\ staticScan = << >>
    /\ calls = << >>
    /\ \E text \in ScanTexts :
           /\ preload = NewSlice(text)
           /\ stream = NewBuffer(text, BufferSize)
           /\ lab = [phase |-> "scan", text |-> text, i |-> 0, turn |-> "preload",
                     pb |-> TRUE, ps |-> TRUE, returned |-> << >>]

\* pb := preload.Scan()
PreloadScanned(r) ==
    /\ preload' = r.s
    /\ lab' = [lab EXCEPT !.turn = "stream", !.pb = r.ok]

ScanPreload ==
    /\ lab.phase = "scan"
    /\ lab.turn = "preload"
    /\ lab.i < MaxScans
    /\ lab.pb \/ lab.ps
    /\ PreloadScanned(Scan(preload))
    /\ UNCHANGED <<parserVars, codec, rt, stream, staticScan, calls>>

\* ps := stream.Scan()
StreamScanned(r) ==
    /\ stream' = r.s
    /\ lab' = [lab EXCEPT !.turn = "preload", !.ps = r.ok, !.i = @ + 1,
                          !.returned = IF r.ok THEN Append(@, r.s.token) ELSE @]

ScanStream ==
    /\ lab.phase = "scan"
    /\ lab.turn = "stream"
    /\ StreamScanned(Scan(stream))
    /\ UNCHANGED <<parserVars, codec, rt, preload, staticScan, calls>>

LockstepNext ==
    \/ ScanPreload
    \/ ScanStream

SpecLockstep == LockstepInit /\ [][LockstepNext]_vars

(***************************************************************************)
(* A caller keeps calling Scan on one Scanner, made by NewSlice or by      *)
(* NewBuffer, past the call that returns false.  stream is the Scanner;    *)
(* lab holds the input and, for every call                                 *)
(* made, what Scan returned (ok), the ID of the token it delivered and     *)
(* what Err returns after it.                                              *)
(***************************************************************************)
\* the inputs of up to two words
DrainTexts == UNION {{Concat(ws) : ws \in [1..k -> ScanWords]} : k \in 0..2}

DrainInit ==
    /\ ParserIdle
    /\ codec = NoCodec
    /\ rt = NoRoundTrip
    /\ preload = << >>
    /\ staticScan = << >>
    /\ calls = << >>
    /\ \E text \in DrainTexts :
           /\ stream \in {NewSlice(text), NewBuffer(text, BufferSize)}
           /\ lab = [phase |-> "drain", text |-> text, scans |-> << >>]

\* ok := s.Scan(); s.Token(); s.Err()
Drained(r) ==
    /\ stream' = r.s
    /\ lab' = [lab EXCEPT !.scans = Append(@, [ok |-> r.ok,
                                               id |-> IF r.ok THEN r.s.token.ID ELSE "none",
                                               err |-> r.s.err.kind])]

ScanOnce ==
    /\ lab.phase = "drain"
    /\ Len(lab.scans) < MaxScans
    /\ Drained(Scan(stream))
    /\ UNCHANGED <<parserVars, codec, rt, preload, staticScan, calls>>

DrainNext == ScanOnce

SpecDrain == DrainInit /\ [][DrainNext]_vars

(***************************************************************************)
(* ScanOne and its callers.  staticScan is the package variable: the       *)
(* Scanner s and the mutex mu, which holds 0 when free and the caller that *)
(* locked it otherwise.  calls holds, for every caller, where it stands in *)
(* ScanOne (pc), the fragment b it passed, what the call returned and how  *)
(* many calls it has made.  The steps of one call are atomic one by one,   *)
(* not as a whole: callers interleave between them.                        *)
(***************************************************************************)
NumCallers == 2

MaxCalls == 3

Callers == 1..NumCallers

\* the fragments passed to ScanOne: a, 12, a newline, "s", nothing, and 1a,
\* which no token matches
ScanOneInputs ==
    {<<97>>, <<49, 50>>, <<10>>, <<34, 115, 34>>, << >>, <<49, 97>>}

\* the steps of ScanOne between Lock and Unlock
InScanOne == {"reset", "readNext", "Unlock"}

ScanOneInit ==
    /\ ParserIdle
    /\ codec = NoCodec
    /\ rt = NoRoundTrip
    /\ preload = << >>
    /\ stream = << >>
    /\ lab = [phase |-> "idle"]
    /\ staticScan = [s |-> newScanner, mu |-> 0]
    /\ calls = [p \in Callers |->
                   [pc |-> "idle", b |-> << >>, token |-> NewToken(newScanner),
                    err |-> "nil", n |-> 0]]

\* the calls made so far by the callers ps together
RECURSIVE CallsMade(_)
CallsMade(ps) ==
    IF ps = {} THEN 0
    ELSE LET p == CHOOSE q \in ps : TRUE IN calls[p].n + CallsMade(ps \ {p})

\* a caller calls ScanOne(b); the callers make MaxCalls calls between them
ScanOneCall(p, b) ==
    /\ calls[p].pc = "idle"
    /\ CallsMade(Callers) < MaxCalls
    /\ calls' = [calls EXCEPT ![p].pc = "Lock", ![p].b = b, ![p].n = @ + 1]
    /\ UNCHANGED <<parserVars, codec, rt, preload, stream, lab, staticScan>>

\* staticScan.mu.Lock()
ScanOneLock(p) ==
    /\ calls[p].pc = "Lock"
    /\ staticScan.mu = 0
    /\ staticScan' = [staticScan EXCEPT !.mu = p]
    /\ calls' = [calls EXCEPT ![p].pc = "reset"]
    /\ UNCHANGED <<parserVars, codec, rt, preload, stream, lab>>

\* the assignments to raw, input, len, peeked and marks
ScanOneReset(p) ==
    /\ calls[p].pc = "reset"
    /\ staticScan' = [staticScan EXCEPT !.s.mem = <<calls[p].b>>, !.s.arr = 1,
                                        !.s.rawLen = Len(calls[p].b), !.s.off = 0,
                                        !.s.len = Len(calls[p].b),
                                        !.s.peeked = << >>, !.s.marks = << >>]
    /\ calls' = [calls EXCEPT ![p].pc = "readNext"]
    /\ UNCHANGED <<parserVars, codec, rt, preload, stream, lab>>

\* "return staticScan.s.readNext()": the values to return are set
ReadNextReturned(p, r) ==
    /\ staticScan' = [staticScan EXCEPT !.s = r.s]
    /\ calls' = [calls EXCEPT ![p].pc = "Unlock", ![p].token = r.token, ![p].err = r.err]

ScanOneReadNext(p) ==
    /\ calls[p].pc = "readNext"
    /\ ReadNextReturned(p, readNextBuffered(staticScan.s))
    /\ UNCHANGED <<parserVars, codec, rt, preload, stream, lab>>

\* Unlock run only when readNext has returned no error
ScanOneUnlockMutant(p) ==
    /\ calls[p].pc = "Unlock"
    /\ staticScan' = [staticScan EXCEPT !.mu = IF calls[p].err = "nil" THEN 0 ELSE @]
    /\ calls' = [calls EXCEPT ![p].pc = "idle"]
    /\ UNCHANGED <<parserVars, codec, rt, preload, stream, lab>>

\* the deferred staticScan.mu.Unlock(), and the return
ScanOneUnlock(p) ==
    /\ calls[p].pc = "Unlock"
    /\ staticScan' = [staticScan EXCEPT !.mu = 0]
    /\ calls' = [calls EXCEPT ![p].pc = "idle"]
    /\ UNCHANGED <<parserVars, codec, rt, preload, stream, lab>>

ScanOneNext ==
    \/ \E p \in Callers, b \in ScanOneInputs : ScanOneCall(p, b)
    \/ \E p \in Callers : ScanOneLock(p)
    \/ \E p \in Callers : ScanOneReset(p)
    \/ \E p \in Callers : ScanOneReadNext(p)
    \/ \E p \in Callers : ScanOneUnlock(p)

SpecScanOne == ScanOneInit /\ [][ScanOneNext]_vars

(***************************************************************************)
(* A caller scans a text of newlines, letters and spaces token by token    *)
(* with a Scanner made by NewSlice over the whole input.  preload is the   *)
(* Scanner; lab holds the caller's locals: the input, the tokens that Scan *)
(* has delivered and what the last Scan returned.                          *)
(***************************************************************************)
MaxLineWords == 4

\* CR, LF, NEL (U+0085), FF, LS (U+2028), PS (U+2029), a and a space
LineWords ==
    {<<13>>, <<10>>, <<194, 133>>, <<12>>, <<226, 128, 168>>, <<226, 128, 169>>,
     <<97>>, <<32>>}

LineTexts == UNION {{Concat(ws) : ws \in [1..k -> LineWords]} : k \in 0..MaxLineWords}

\* Scanner.Pos
Pos(s) == <<s.line + 1, s.column + 1>>

LinesInit ==
    /\ ParserIdle
    /\ codec = NoCodec
    /\ rt = NoRoundTrip
    /\ stream = << >>
    /\ staticScan = << >>
    /\ calls = << >>
    /\ \E text \in LineTexts :
           /\ preload = NewSlice(text)
           /\ lab = [phase |-> "lines", text |-> text, tokens |-> << >>, ok |-> TRUE]

\* "for s.Scan() { tokens = append(tokens, s.Token()) }", one round
LinesScanned(r) ==
    /\ preload' = r.s
    /\ lab' = [lab EXCEPT !.ok = r.ok,
                          !.tokens = IF r.ok THEN Append(@, r.s.token) ELSE @]

LinesScan ==
    /\ lab.phase = "lines"
    /\ lab.ok
    /\ LinesScanned(Scan(preload))
    /\ UNCHANGED <<parserVars, codec, rt, stream, staticScan, calls>>

LinesNext == LinesScan

SpecLines == LinesInit /\ [][LinesNext]_vars

(***************************************************************************)
(* A caller has the Value of a Decimal token made and then its text.       *)
(* lab holds its locals: the token, the Value and the error that           *)
(* ValueFromToken returned, and the text that Value.String returned.       *)
(***************************************************************************)
\* the digits of the literals: around 1<<31, 1<<63 and 1<<64, and beyond
NumberBodies ==
    {<<52, 50>>,
     <<50, 49, 52, 55, 52, 56, 51, 54, 52, 56>>,
     <<57, 50, 50, 51, 51, 55, 50, 48, 51, 54, 56, 53, 52, 55, 55, 53, 56, 48, 55>>,
     <<57, 50, 50, 51, 51, 55, 50, 48, 51, 54, 56, 53, 52, 55, 55, 53, 56, 48, 56>>,
     <<57, 50, 50, 51, 51, 55, 50, 48, 51, 54, 56, 53, 52, 55, 55, 53, 56, 48, 57>>,
     <<49, 56, 52, 52, 54, 55, 52, 52, 48, 55, 51, 55, 48, 57, 53, 53, 49, 54, 49, 53>>,
     <<49, 56, 52, 52, 54, 55, 52, 52, 48, 55, 51, 55, 48, 57, 53, 53, 49, 54, 49, 54>>,
     <<49, 50, 51, 52, 53, 54, 55, 56, 57, 48, 49, 50, 51, 52, 53, 54, 55, 56, 57, 48,
       49, 50, 51, 52>>}

\* what follows the digits: nothing, or a fraction and an exponent
NumberTails ==
    {<< >>, <<101, 52, 48, 48>>, <<69, 43, 52, 48, 48>>, <<101, 45, 52, 48, 48>>,
     <<46, 53, 101, 52, 48, 48>>}

\* sign, leading zeros, the first digit, a '_' or none, the other digits,
\* the tail
NumberLiterals ==
    {sign \o zeros \o <<Head(body)>> \o sep \o Tail(body) \o tail :
        sign \in {<< >>, <<45>>, <<43>>}, zeros \in {<< >>, <<48, 48>>},
        sep \in {<< >>, <<95>>}, body \in NumberBodies, tail \in NumberTails}

NumbersInit ==
    /\ ParserIdle
    /\ codec = NoCodec
    /\ rt = NoRoundTrip
    /\ preload = << >>
    /\ stream = << >>
    /\ staticScan = << >>
    /\ calls = << >>
    /\ \E lit \in NumberLiterals :
           lab = [phase |-> "number", step |-> "token", tok |-> Token("Decimal", lit),
                  v |-> ZeroValue, err |-> FALSE, out |-> << >>]

\* v, err := ValueFromToken(tok)
ValueReturned(r) == lab' = [lab EXCEPT !.step = "value", !.v = r.v, !.err = r.err]

CallValueFromToken ==
    /\ lab.phase = "number"
    /\ lab.step = "token"
    /\ ValueReturned(ValueFromToken(lab.tok))
    /\ UNCHANGED <<parserVars, codec, rt, preload, stream, staticScan, calls>>

\* out := v.String()
CallString ==
    /\ lab.phase = "number"
    /\ lab.step = "value"
    /\ ~lab.err
    /\ IF lab.v.Value.k = "big.Float"
       THEN \E digits \in ShortestDigits(lab.v.Value.s) :
                lab' = [lab EXCEPT !.step = "text",
                                   !.out = AppendBigFloat(<< >>, lab.v.Value, digits)]
       ELSE lab' = [lab EXCEPT !.step = "text",
                               !.out = string(lab.v, {"voStrictStringFlags", "voUseNumericFlags"})]
    /\ UNCHANGED <<parserVars, codec, rt, preload, stream, staticScan, calls>>

NumbersNext ==
    \/ CallValueFromToken
    \/ CallString

SpecNumbers == NumbersInit /\ [][NumbersNext]_vars

(***************************************************************************)
(* A caller holds a Value whose Flag need not fit what the Value holds (a  *)
(* program may assign both), has its text made with the format kept, and   *)
(* parses that text as the argument of a node.  lab holds its locals: the  *)
(* Value, the method called, the text, and what the parse gave back.       *)
(***************************************************************************)
ValueFlags ==
    {"FlagNone", "FlagRaw", "FlagQuoted", "FlagBinary", "FlagOctal", "FlagHexadecimal",
     "FlagBareSuffixed"}

\* s, a b, the empty string, a"#b, true, 255 and -255, 0, 1<<31, 1<<64 as
\* 0x10000000000000000 is parsed, 1.5, true and nil
FlaggedContents ==
    {GoString(<<115>>), GoString(<<97, 32, 98>>), GoString(<< >>),
     GoString(<<97, 34, 35, 98>>), GoString(<<116, 114, 117, 101>>),
     GoInt(255), GoInt(0 - 255), GoInt(0),
     parseNumber(<<50, 49, 52, 55, 52, 56, 51, 54, 52, 56>>, 10).v,
     parseNumber(<<48, 120, 49>> \o Repeat(48, 16), 16).v,
     GoFloat(<<49, 46, 53>>), GoBool(TRUE), GoNil}

FlagsInit ==
    /\ ParserIdle
    /\ codec = NoCodec
    /\ rt = NoRoundTrip
    /\ preload = << >>
    /\ stream = << >>
    /\ staticScan = << >>
    /\ calls = << >>
    /\ \E x \in FlaggedContents, flag \in ValueFlags, how \in {"String", "FormattedString"} :
           \* String writes a string that is neither raw nor quoted as the
           \* name it was read from, which is no argument
           /\ how = "String" /\ x.k = "string" => flag \in {"FlagRaw", "FlagQuoted"}
           /\ lab = [phase |-> "flags", step |-> "value", how |-> how,
                  v |-> [ZeroValue EXCEPT !.Value = x, !.Flag = flag],
                  out |-> << >>, back |-> [found |-> "", args |-> << >>]]

\* out := v.String(), or out := v.FormattedString()
CallFormatted ==
    /\ lab.phase = "flags"
    /\ lab.step = "value"
    /\ lab' = [lab EXCEPT !.step = "text",
                          !.out = IF lab.how = "String"
                                  THEN string(lab.v, {"voStrictStringFlags", "voUseNumericFlags"})
                                  ELSE FormattedString(lab.v)]
    /\ UNCHANGED <<parserVars, codec, rt, preload, stream, staticScan, calls>>

\* what the caller finds in the document: that the parse failed, that the
\* document is not one node of arguments alone, or the node's arguments
ArgumentsBack(r) ==
    IF r.err # NoErr THEN [found |-> "error", args |-> << >>]
    ELSE IF Len(r.c.doc) # 1 THEN [found |-> "nodes", args |-> << >>]
    ELSE IF r.c.nodes[r.c.doc[1]].Properties # NoProperties
    THEN [found |-> "properties", args |-> << >>]
    ELSE IF r.c.nodes[r.c.doc[1]].Children # << >>
    THEN [found |-> "children", args |-> << >>]
    ELSE [found |-> "arguments", args |-> r.c.nodes[r.c.doc[1]].Arguments]

\* doc, err := kdl.Parse("n " + out + "\n")
ParseBack ==
    /\ lab.phase = "flags"
    /\ lab.step = "text"
    /\ lab' = [lab EXCEPT !.step = "back",
                          !.back = ArgumentsBack(ParseText(<<110, 32>> \o lab.out \o <<10>>))]
    /\ UNCHANGED <<parserVars, codec, rt, preload, stream, staticScan, calls>>

FlagsNext ==
    \/ CallFormatted
    \/ ParseBack

SpecFlags == FlagsInit /\ [][FlagsNext]_vars

(***************************************************************************)
(* A caller holds a Value that has a type annotation and a radix flag, as  *)
(* the argument (u8)0xff has once it is parsed, and has its text made with *)
(* the format kept.  lab holds the Value, the method called and the text.  *)
(***************************************************************************)
\* no annotation, t and u8
AnnotatedTypes == {<< >>, <<116>>, <<117, 56>>}

RadixFlags == {"FlagBinary", "FlagOctal", "FlagHexadecimal"}

AnnotatedInit ==
    /\ ParserIdle
    /\ codec = NoCodec
    /\ rt = NoRoundTrip
    /\ preload = << >>
    /\ stream = << >>
    /\ staticScan = << >>
    /\ calls = << >>
    /\ \E n \in 0..MaxAnnotated, type \in AnnotatedTypes,
          flag \in RadixFlags \cup {"FlagNone"}, how \in {"String", "FormattedString"} :
           lab = [phase |-> "annotated", step |-> "value", how |-> how,
                  v |-> [ZeroValue EXCEPT !.Value = GoInt(n), !.Flag = flag, !.Type = type],
                  out |-> << >>]

\* out := v.String(), or out := v.FormattedString()
CallAnnotated ==
    /\ lab.phase = "annotated"
    /\ lab.step = "value"
    /\ lab' = [lab EXCEPT !.step = "text",
                          !.out = IF lab.how = "String"
                                  THEN string(lab.v, {"voStrictStringFlags", "voUseNumericFlags"})
                                  ELSE FormattedString(lab.v)]
    /\ UNCHANGED <<parserVars, codec, rt, preload, stream, staticScan, calls>>

AnnotatedNext == CallAnnotated

SpecAnnotated == AnnotatedInit /\ [][AnnotatedNext]_vars

(***************************************************************************)
(* SuffixedDecimal.AsNumber.  A float64 is held by the decimal writing of  *)
(* its exact value: the rounding of a product to 53 bits is left out, and  *)
(* the numbers multiplied here have few digits.  Digits are numbers 0..9,  *)
(* the most significant first, none for 0.                                 *)
(***************************************************************************)
\* a * m + carry for a small m, from the digit i places left of the last
\* (carry and acc are looked at in every step, which has them computed
\* step by step)
RECURSIVE MulSmallFrom(_, _, _, _, _)
MulSmallFrom(a, m, i, carry, acc) ==
    IF carry = 0 /\ Len(acc) >= 0 /\ i >= Len(a) THEN acc
    ELSE MulSmallFrom(a, m, i + 1,
                      ((IF i < Len(a) THEN a[Len(a) - i] ELSE 0) * m + carry) \div 10,
                      <<((IF i < Len(a) THEN a[Len(a) - i] ELSE 0) * m + carry) % 10>> \o acc)

MulSmall(a, m) == NoLeadingZeros(MulSmallFrom(a, m, 0, 0, << >>))

\* a + b
RECURSIVE AddFrom(_, _, _, _, _)
AddFrom(a, b, i, carry, acc) ==
    IF carry = 0 /\ Len(acc) >= 0 /\ i >= Len(a) /\ i >= Len(b) THEN acc
    ELSE AddFrom(a, b, i + 1,
                 ((IF i < Len(a) THEN a[Len(a) - i] ELSE 0)
                  + (IF i < Len(b) THEN b[Len(b) - i] ELSE 0) + carry) \div 10,
                 <<((IF i < Len(a) THEN a[Len(a) - i] ELSE 0)
                    + (IF i < Len(b) THEN b[Len(b) - i] ELSE 0) + carry) % 10>> \o acc)

AddDigits(a, b) == AddFrom(a, b, 0, 0, << >>)

\* a * b, from the digit i of b, acc being a times the digits before it
RECURSIVE MulFrom(_, _, _, _)
MulFrom(a, b, i, acc) ==
    IF Len(acc) >= 0 /\ i > Len(b) THEN acc
    ELSE MulFrom(a, b, i + 1, AddDigits(MulSmall(acc, 10), MulSmall(a, b[i])))

MulDigits(a, b) == MulFrom(a, b, 1, << >>)

\* unit * unit * ... of n factors, as AsNumber computes multiplier
RECURSIVE UnitPower(_, _)
UnitPower(unit, n) == IF n = 0 THEN <<1>> ELSE MulSmall(UnitPower(unit, n - 1), unit)

\* the number a parsed number holds, as FloatParts gives it: the
\* significant digits and the power of ten of the first of them
NumberParts(n) ==
    IF n.k = "float" THEN FloatParts(n.s)
    ELSE IF n.k = "big.Float" THEN [neg |-> n.x # << >>, sig |-> n.s, e10 |-> n.n]
    ELSE IF n.k = "int" /\ n.s = << >> THEN FloatParts(AppendInt(n.n, 10))
    ELSE FloatParts((IF n.n < 0 THEN <<45>> ELSE << >>) \o n.s)

\* v * multiplier
TimesMultiplier(p, multiplier) ==
    LET d == [i \in 1..Len(p.sig) |-> p.sig[i] - 48]
        prod == MulDigits(d, multiplier) IN
    [neg |-> p.neg, sig |-> TrimZeros(DigitBytes(prod)),
     e10 |-> IF prod = << >> THEN 0 ELSE p.e10 + Len(prod) - Len(d)]

\* the decimal writing of a number of no more than MaxFloatDigits places
DecimalText(p) ==
    (IF p.neg THEN <<45>> ELSE << >>)
    \o (IF p.sig = << >> THEN <<48>>
        ELSE IF p.e10 < 0 THEN <<48, 46>> \o Repeat(48, 0 - p.e10 - 1) \o p.sig
        ELSE IF p.e10 + 1 >= Len(p.sig) THEN p.sig \o Repeat(48, p.e10 + 1 - Len(p.sig))
        ELSE SubSeq(p.sig, 1, p.e10 + 1) \o <<46>> \o SubSeq(p.sig, p.e10 + 2, Len(p.sig)))

SuffixUnit(suffix) == IF Len(suffix) = 2 THEN 1024 ELSE 1000

SuffixFactors(ch) ==
    IF ch \in {107, 75} THEN 1
    ELSE IF ch \in {109, 77} THEN 2
    ELSE IF ch \in {103, 71} THEN 3
    ELSE IF ch \in {116, 84} THEN 4
    ELSE 0

AsNumberMutant(s) ==
    LET n == parseNumber(s.s, 10)
        multiplier == UnitPower(1000, SuffixFactors(s.x[1])) IN
    IF n.err THEN [v |-> GoInt(0), err |-> TRUE]
    ELSE IF Len(s.x) = 0 THEN [v |-> n.v, err |-> FALSE]
    ELSE IF Len(s.x) > 2 \/ (Len(s.x) = 2 /\ s.x[2] \notin {98, 66})
    THEN [v |-> GoInt(0), err |-> TRUE]
    ELSE IF SuffixFactors(s.x[1]) = 0 THEN [v |-> GoInt(0), err |-> TRUE]
    ELSE IF n.v.k = "int" \/ n.v.k = "float"
    THEN [v |-> GoFloat(DecimalText(TimesMultiplier(NumberParts(n.v), multiplier))),
          err |-> FALSE]
    ELSE [v |-> GoBigFloat(TimesMultiplier(NumberParts(n.v), multiplier)), err |-> FALSE]

\* s.AsNumber() for the SuffixedDecimal s: an int64 or *big.Int is
\* converted, and the product is a float64 or a *big.Float
AsNumber(s) ==
    LET n == parseNumber(s.s, 10)
        multiplier == UnitPower(SuffixUnit(s.x), SuffixFactors(s.x[1])) IN
    IF n.err THEN [v |-> GoInt(0), err |-> TRUE]
    ELSE IF Len(s.x) = 0 THEN [v |-> n.v, err |-> FALSE]
    ELSE IF Len(s.x) > 2 \/ (Len(s.x) = 2 /\ s.x[2] \notin {98, 66})
    THEN [v |-> GoInt(0), err |-> TRUE]
    ELSE IF SuffixFactors(s.x[1]) = 0 THEN [v |-> GoInt(0), err |-> TRUE]
    ELSE IF n.v.k = "int" \/ n.v.k = "float"
    THEN [v |-> GoFloat(DecimalText(TimesMultiplier(NumberParts(n.v), multiplier))),
          err |-> FALSE]
    ELSE [v |-> GoBigFloat(TimesMultiplier(NumberParts(n.v), multiplier)), err |-> FALSE]

(***************************************************************************)
(* A consumer resolves the text of a suffixed decimal: it has the text     *)
(* split by ParseSuffixedDecimal and calls AsNumber on the result.  lab    *)
(* holds the text, the SuffixedDecimal and what AsNumber returned.         *)
(***************************************************************************)
\* 1, 12, 2.3, 0.5, 1<<31 and 1<<63
SuffixPrefixes ==
    {<<49>>, <<49, 50>>, <<50, 46, 51>>, <<48, 46, 53>>,
     <<50, 49, 52, 55, 52, 56, 51, 54, 52, 56>>,
     <<57, 50, 50, 51, 51, 55, 50, 48, 51, 54, 56, 53, 52, 55, 55, 53, 56, 48, 56>>}

\* none, k K m M g G t T, and b, h, x which are no multipliers
SuffixLetters ==
    {<< >>, <<107>>, <<75>>, <<109>>, <<77>>, <<103>>, <<71>>, <<116>>, <<84>>, <<98>>, <<104>>,
     <<120>>}

\* none, b, B, bb
SuffixTails == {<< >>, <<98>>, <<66>>, <<98, 98>>}

SuffixInit ==
    /\ ParserIdle
    /\ codec = NoCodec
    /\ rt = NoRoundTrip
    /\ preload = << >>
    /\ stream = << >>
    /\ staticScan = << >>
    /\ calls = << >>
    /\ \E num \in SuffixPrefixes, letter \in SuffixLetters, tail \in SuffixTails :
           lab = [phase |-> "suffix", step |-> "text", b |-> num \o letter \o tail,
                  sd |-> GoSuffixed(<< >>, << >>), v |-> GoNil, err |-> FALSE]

\* sd, err := ParseSuffixedDecimal(b)
CallParseSuffixedDecimal ==
    /\ lab.phase = "suffix"
    /\ lab.step = "text"
    /\ lab' = [lab EXCEPT !.step = IF ParseSuffixedDecimal(lab.b).err THEN "failed" ELSE "split",
                          !.sd = ParseSuffixedDecimal(lab.b).v,
                          !.err = ParseSuffixedDecimal(lab.b).err]
    /\ UNCHANGED <<parserVars, codec, rt, preload, stream, staticScan, calls>>

\* v, err := sd.AsNumber()
CallAsNumber ==
    /\ lab.phase = "suffix"
    /\ lab.step = "split"
    /\ lab' = [lab EXCEPT !.step = "resolved",
                          !.v = AsNumber(lab.sd).v,
                          !.err = AsNumber(lab.sd).err]
    /\ UNCHANGED <<parserVars, codec, rt, preload, stream, staticScan, calls>>

SuffixNext ==
    \/ CallParseSuffixedDecimal
    \/ CallAsNumber

SpecSuffix == SuffixInit /\ [][SuffixNext]_vars

(***************************************************************************)
(* A number with letters behind it is scanned and parsed, with the strict  *)
(* flags and with MultiplierSuffixes.  lab holds the flags, the text of    *)
(* the number, what readNext returned for it and what kdl.parse found in   *)
(* the document of a node that has it for its argument.                    *)
(***************************************************************************)
\* 1, 12, 2.3, -1, 1_0
UnitNumerals == {<<49>>, <<49, 50>>, <<50, 46, 51>>, <<45, 49>>, <<49, 95, 48>>}

\* none, k, kb, Mb, m, h, s, kB, x, and k2
UnitLetters ==
    {<< >>, <<107>>, <<107, 98>>, <<77, 98>>, <<109>>, <<104>>, <<115>>, <<107, 66>>, <<120>>,
     <<107, 50>>}

\* what follows the number: nothing, a space, a newline, a semicolon
UnitFollowers == {<< >>, <<32>>, <<10>>, <<59>>}

UnitsInit ==
    /\ ParserIdle
    /\ codec = NoCodec
    /\ rt = NoRoundTrip
    /\ preload = << >>
    /\ stream = << >>
    /\ staticScan = << >>
    /\ calls = << >>
    /\ \E num \in UnitNumerals, unit \in UnitLetters, after \in UnitFollowers,
          f \in {0, MultiplierSuffixes} :
           lab = [phase |-> "units", step |-> "text", f |-> f, num |-> num, unit |-> unit,
                  after |-> after, sc |-> ScanEOF(0),
                  back |-> [found |-> "", args |-> << >>]]

\* s.RelaxedNonCompliant = f; s.Scan() of a Scanner over the number and
\* what follows it
ScanNumber ==
    /\ lab.phase = "units"
    /\ lab.step = "text"
    /\ lab' = [lab EXCEPT !.step = "scanned",
                          !.sc = readNextRelaxed(lab.num \o lab.unit \o lab.after, 0, lab.f)]
    /\ UNCHANGED <<parserVars, codec, rt, preload, stream, staticScan, calls>>

\* doc, err := parse(s) of a Scanner over "n ", the number and what
\* follows it
ParseNumber ==
    /\ lab.phase = "units"
    /\ lab.step = "scanned"
    /\ lab' = [lab EXCEPT !.step = "parsed",
                          !.back = ArgumentsBack(ParseTextRelaxed(
                                       <<110, 32>> \o lab.num \o lab.unit \o lab.after, lab.f))]
    /\ UNCHANGED <<parserVars, codec, rt, preload, stream, staticScan, calls>>

UnitsNext ==
    \/ ScanNumber
    \/ ParseNumber

SpecUnits == UnitsInit /\ [][UnitsNext]_vars

(***************************************************************************)
(* A node with one argument is parsed twice, with a space between the name *)
(* and the argument and with another separator there, under the strict     *)
(* flags and under YAMLTOMLAssignments.  lab holds the flags, the parts of *)
(* the text, and the document or the error of each parse.                  *)
(***************************************************************************)
\* n, yaml
AssignNames == {<<110>>, <<121, 97, 109, 108>>}

\* 1, 1234, "s", true, null
AssignValues ==
    {<<49>>, <<49, 50, 51, 52>>, <<34, 115, 34>>, <<116, 114, 117, 101>>, <<110, 117, 108, 108>>}

\* ": ", "=", " = ", and ":", " : ", "= ", " =", "==", ":=", " "
AssignSeparators ==
    {<<58, 32>>, <<61>>, <<32, 61, 32>>, <<58>>, <<32, 58, 32>>, <<61, 32>>, <<32, 61>>,
     <<61, 61>>, <<58, 61>>, <<32>>}

\* what ends the node: a newline, a semicolon, the end of the input
AssignEnds == {<<10>>, <<59>>, << >>}

\* the document of a parse, or that it failed
TreeOf(r) ==
    IF r.err # NoErr THEN [failed |-> TRUE, doc |-> << >>, nodes |-> << >>]
    ELSE [failed |-> FALSE, doc |-> r.c.doc, nodes |-> r.c.nodes]

NoTree == [failed |-> FALSE, doc |-> << >>, nodes |-> << >>]

AssignInit ==
    /\ ParserIdle
    /\ codec = NoCodec
    /\ rt = NoRoundTrip
    /\ preload = << >>
    /\ stream = << >>
    /\ staticScan = << >>
    /\ calls = << >>
    /\ \E name \in AssignNames, v \in AssignValues, sep \in AssignSeparators,
          end \in AssignEnds, f \in {0, YAMLTOMLAssignments} :
           lab = [phase |-> "assign", step |-> "text", f |-> f, name |-> name, sep |-> sep,
                  v |-> v, end |-> end, plain |-> NoTree, assigned |-> NoTree]

\* doc, err := parse(s) of a Scanner over name, a space, v and the end
ParsePlain ==
    /\ lab.phase = "assign"
    /\ lab.step = "text"
    /\ lab' = [lab EXCEPT
                 !.step = "plain",
                 !.plain = TreeOf(ParseTextRelaxed(lab.name \o <<32>> \o lab.v \o lab.end, lab.f))]
    /\ UNCHANGED <<parserVars, codec, rt, preload, stream, staticScan, calls>>

\* doc, err := parse(s) of a Scanner over name, the separator, v and the end
ParseAssigned ==
    /\ lab.phase = "assign"
    /\ lab.step = "plain"
    /\ lab' = [lab EXCEPT
                 !.step = "assigned",
                 !.assigned = TreeOf(ParseTextRelaxed(lab.name \o lab.sep \o lab.v \o lab.end,
                                                      lab.f))]
    /\ UNCHANGED <<parserVars, codec, rt, preload, stream, staticScan, calls>>

AssignNext ==
    \/ ParsePlain
    \/ ParseAssigned

SpecAssign == AssignInit /\ [][AssignNext]_vars

(***************************************************************************)
(* One text is parsed twice, under the default flags and under a set of    *)
(* relaxed flags (MultiplierSuffixes, YAMLTOMLAssignments or both).  lab   *)
(* holds the flags, the text, and the document or the error of each parse. *)
(***************************************************************************)
\* n, n:, a:b
RelaxNames == {<<110>>, <<110, 58>>, <<97, 58, 98>>}

\* 1, 1_0, 1e2, 0b1, 1.5, 1k, true, "a:b", a=1, a:b=1, (t)1, (a:b)1, =1,
\* {m;}, {m: 1;}
RelaxItems ==
    {<<49>>, <<49, 95, 48>>, <<49, 101, 50>>, <<48, 98, 49>>, <<49, 46, 53>>, <<49, 107>>,
     <<116, 114, 117, 101>>, <<34, 97, 58, 98, 34>>, <<97, 61, 49>>,
     <<97, 58, 98, 61, 49>>, <<40, 116, 41, 49>>, <<40, 97, 58, 98, 41, 49>>, <<61, 49>>,
     <<123, 109, 59, 125>>, <<123, 109, 58, 32, 49, 59, 125>>}

RelaxFlags ==
    {MultiplierSuffixes, YAMLTOMLAssignments, MultiplierSuffixes + YAMLTOMLAssignments}

RelaxInit ==
    /\ ParserIdle
    /\ codec = NoCodec
    /\ rt = NoRoundTrip
    /\ preload = << >>
    /\ stream = << >>
    /\ staticScan = << >>
    /\ calls = << >>
    /\ \E name \in RelaxNames, item \in RelaxItems, end \in AssignEnds, f \in RelaxFlags :
           lab = [phase |-> "relax", step |-> "text", f |-> f,
                  text |-> name \o <<32>> \o item \o end,
                  strict |-> NoTree, relaxed |-> NoTree]

\* doc, err := parse(s) of a Scanner over the text with no flag set
ParseStrict ==
    /\ lab.phase = "relax"
    /\ lab.step = "text"
    /\ lab' = [lab EXCEPT !.step = "strict",
                          !.strict = TreeOf(ParseTextRelaxed(lab.text, 0))]
    /\ UNCHANGED <<parserVars, codec, rt, preload, stream, staticScan, calls>>

\* doc, err := parse(s) of a Scanner over the text with the flags set
ParseRelaxed ==
    /\ lab.phase = "relax"
    /\ lab.step = "strict"
    /\ lab' = [lab EXCEPT !.step = "relaxed",
                          !.relaxed = TreeOf(ParseTextRelaxed(lab.text, lab.f))]
    /\ UNCHANGED <<parserVars, codec, rt, preload, stream, staticScan, calls>>

RelaxNext ==
    \/ ParseStrict
    \/ ParseRelaxed

SpecRelax == RelaxInit /\ [][RelaxNext]_vars

(***************************************************************************)
(* The scanner reads one token from an input that begins with the opener   *)
(* of a multi-line comment.  lab holds the input and what readNext         *)
(* returned for it.                                                        *)
(***************************************************************************)
MaxComment == 6

\* '/', '*', a, newline
CommentBytes == {47, 42, 97, 10}

CommentTexts ==
    UNION {[1..n -> CommentBytes] : n \in 0..MaxComment}

CommentsInit ==
    /\ ParserIdle
    /\ codec = NoCodec
    /\ rt = NoRoundTrip
    /\ preload = << >>
    /\ stream = << >>
    /\ staticScan = << >>
    /\ calls = << >>
    /\ \E body \in CommentTexts :
           lab = [phase |-> "comments", step |-> "text", text |-> <<47, 42>> \o body,
                  sc |-> ScanEOF(0)]

\* s.Scan() of a Scanner over the input
ScanComment ==
    /\ lab.phase = "comments"
    /\ lab.step = "text"
    /\ lab' = [lab EXCEPT !.step = "scanned", !.sc = readNext(lab.text, 0)]
    /\ UNCHANGED <<parserVars, codec, rt, preload, stream, staticScan, calls>>

CommentsNext == ScanComment

SpecComments == CommentsInit /\ [][CommentsNext]_vars

(***************************************************************************)
(* The scanner reads one token from an input that begins with the opening  *)
(* of a raw string, and the token is made a Value.  lab holds the number   *)
(* of '#' of the opening, what follows the opening, what readNext returned *)
(* and what ValueFromToken returned.                                       *)
(***************************************************************************)
MaxHashes == 2

MaxRaw == 5

\* '"', '#', a, newline
RawBytes == {34, 35, 97, 10}

RawBodies == UNION {[1..n -> RawBytes] : n \in 0..MaxRaw}

RawText(hashes, body) == <<114>> \o Repeat(35, hashes) \o <<34>> \o body

RawInit ==
    /\ ParserIdle
    /\ codec = NoCodec
    /\ rt = NoRoundTrip
    /\ preload = << >>
    /\ stream = << >>
    /\ staticScan = << >>
    /\ calls = << >>
    /\ \E hashes \in 0..MaxHashes, body \in RawBodies :
           lab = [phase |-> "raw", step |-> "text", hashes |-> hashes, body |-> body,
                  sc |-> ScanEOF(0), v |-> ZeroValue, err |-> FALSE]

\* s.Scan() of a Scanner over the input
ScanRaw ==
    /\ lab.phase = "raw"
    /\ lab.step = "text"
    /\ lab' = [lab EXCEPT !.step = IF readNext(RawText(lab.hashes, lab.body), 0).status = "ok"
                                   THEN "scanned" ELSE "failed",
                          !.sc = readNext(RawText(lab.hashes, lab.body), 0)]
    /\ UNCHANGED <<parserVars, codec, rt, preload, stream, staticScan, calls>>

\* v, err := document.ValueFromToken(s.Token())
ValueOfRaw ==
    /\ lab.phase = "raw"
    /\ lab.step = "scanned"
    /\ lab' = [lab EXCEPT !.step = "value",
                          !.v = ValueFromToken(lab.sc.tok).v,
                          !.err = ValueFromToken(lab.sc.tok).err]
    /\ UNCHANGED <<parserVars, codec, rt, preload, stream, staticScan, calls>>

RawNext ==
    \/ ScanRaw
    \/ ValueOfRaw

SpecRaw == RawInit /\ [][RawNext]_vars

(***************************************************************************)
(* Properties of kdl.parse                                                 *)
(***************************************************************************)
\* a turn of the loop has just handled token' without an error
Turned == pc = "scan" /\ pc' = "scan" /\ scanner'.left < scanner.left

\* C4: parse returns either a document and no error, or an error and no
\* document; while it has not returned there is neither.
C4_DocumentOrError ==
    /\ pc = "done" => (ret.doc <=> ret.err = NoErr)
    /\ pc = "scan" => ret = NotReturned

\* parse has returned an error after nodes had been built, and no document
C4_Witness == pc = "done" /\ ret.err # NoErr /\ g.built > 0 /\ ~ret.doc

\* C5: parse returns a document only if the last token left the parser in
\* the Document state with no open node, no open children block (the state
\* stack is empty) and no pending type annotation; after the EOF token the
\* loop goes on only from such a context.
C5_EndsInDocumentState ==
    (ret.doc \/ (pc = "scan" /\ token.ID = "EOF")) =>
        /\ c.state = "stateDocument"
        /\ c.node = << >>
        /\ c.states = << >>
        /\ ~Valid(c.typeAnnot)

\* parse has returned a document after the EOF token: one node with one
\* argument, nothing left open
C5_Witness ==
    /\ pc = "done"
    /\ ret.doc
    /\ token.ID = "EOF"
    /\ Len(c.doc) = 1
    /\ Len(c.nodes[c.doc[1]].Arguments) = 1

\* the token kind has no entry in the state's table, neither under its ID
\* nor under one of its classes
NoEntry(state, id) ==
    /\ id \notin TransitionKeys(state)
    /\ \A i \in 1..Len(tokenClasses(id)) : tokenClasses(id)[i] \notin TransitionKeys(state)

\* C6: a token that has no entry in the table of the current state makes
\* parse return an error that carries the token's position, and no
\* document; the context is not built on any further.
C6_NoEntryIsError ==
    [][(pc = "scan" /\ scanner'.left < scanner.left /\ NoEntry(c.state, token'.ID)) =>
           /\ pc' = "done"
           /\ ~ret'.doc
           /\ ret'.err.msg # "nil"
           /\ ret'.err.Line = token'.Line
           /\ token'.Line > 0]_parserVars

\* parse has returned the error of a token without an entry, a '}' met in a
\* node's parameters after the node was named
C6_Witness ==
    /\ pc = "done"
    /\ ret.err = [msg |-> "unexpected token", Line |-> token.Line]
    /\ token.ID = "BraceClose"
    /\ g.built > 0

\* C10: in the PropertyValue state (a held identifier or string followed by
\* '='), a value token that is not discarded adds to the current node
\* exactly the property of the held key with the token's value, leaves the
\* node's arguments and its other properties as they were, and puts the
\* parser in the Node state.
C10_PropertyCommitted ==
    [][(Turned /\ c.state = "statePropertyValue" /\ IsValueToken(token'.ID)
          /\ ~c.ignoreNextArgProp) =>
           LET n == currentNode(c)
               key == ValueFromToken(c.ident).v.Value.s
               old == c.nodes[n].Properties
               new == c'.nodes[n].Properties IN
           /\ c'.state = "stateNode"
           /\ c'.node = c.node
           /\ c'.nodes[n].Arguments = c.nodes[n].Arguments
           /\ DOMAIN new.props = DOMAIN old.props \cup {key}
           /\ new.props[key].Value = ValueFromToken(token').v.Value
           /\ new.props[key].Type = c.typeAnnot.Data
           /\ \A k \in DOMAIN old.props \ {key} : new.props[k] = old.props[k]
           /\ Len(new.order) = Cardinality(DOMAIN new.props)
           /\ ~Valid(c'.ident)]_parserVars

\* a value token has just been committed as the only property of a node
\* that has no argument, and the parser is in the Node state
C10_Witness ==
    /\ pc = "scan"
    /\ c.state = "stateNode"
    /\ IsValueToken(token.ID)
    /\ c.node # << >>
    /\ c.nodes[currentNode(c)].Arguments = << >>
    /\ Len(c.nodes[currentNode(c)].Properties.order) = 1


\* the tokens that end a node: a newline, ';' and the end of the input
IsTerminatorToken(id) == id \in {"Newline", "Semicolon", "EOF"}

OpenNodeStates == {"stateNode", "stateNodeParams", "stateArgProp", "stateNodeEnd"}

OrderIsKeys(p) ==
    /\ \A i, j \in 1..Len(p.order) : p.order[i] = p.order[j] => i = j
    /\ {p.order[i] : i \in 1..Len(p.order)} = DOMAIN p.props

\* C12: a property added under a key the node already has takes the place
\* of the earlier value and leaves the order of the keys as it was; one
\* added under a new key goes to the end of the order; the other
\* properties keep their values, and no key is ever twice in the order.
C12_RepeatedKeyKeepsPlace ==
    [][(Turned /\ c.state = "statePropertyValue" /\ IsValueToken(token'.ID)
          /\ ~c.ignoreNextArgProp) =>
           LET n == currentNode(c)
               key == ValueFromToken(c.ident).v.Value.s
               old == c.nodes[n].Properties
               new == c'.nodes[n].Properties IN
           /\ OrderIsKeys(old) /\ OrderIsKeys(new)
           /\ key \in DOMAIN old.props => new.order = old.order
           /\ key \notin DOMAIN old.props => new.order = Append(old.order, key)
           /\ new.props[key].Value = ValueFromToken(token').v.Value
           /\ \A k \in DOMAIN old.props \ {key} : new.props[k] = old.props[k]]_parserVars

\* thirteen tokens have been handled, the last of them the value 3 of a
\* property; the only node has no argument and the keys a, b in this order,
\* a holding 3 and b holding 2.  Thirteen tokens are the node's name and
\* three properties, so the key a was added twice.
C12_Witness ==
    /\ pc = "scan"
    /\ scanner.left = MaxPropertiesTokens - 13
    /\ token.ID = "Decimal"
    /\ c.state = "stateNode"
    /\ Len(c.nodes) = 1
    /\ c.nodes[1].Arguments = << >>
    /\ c.nodes[1].Properties.order = << <<97>>, <<98>> >>
    /\ c.nodes[1].Properties.props[<<97>>].Value.n = 3
    /\ c.nodes[1].Properties.props[<<98>>].Value.n = 2

(***************************************************************************)
(* Properties of the '/-' marker                                           *)
(***************************************************************************)
\* node n is part of the tree: it hangs, through the children lists, from
\* the document
RECURSIVE InTree(_)
InTree(n) ==
    IF g.parent[n] = 0
    THEN \E i \in 1..Len(c.doc) : c.doc[i] = n
    ELSE /\ \E i \in 1..Len(c.nodes[g.parent[n]].Children) :
                c.nodes[g.parent[n]].Children[i] = n
         /\ InTree(g.parent[n])

\* node n, or a node it lies in, followed a '/-' marker or was declared in
\* a children block the parser was skipping
RECURSIVE Discarded(_)
Discarded(n) ==
    \/ n \in g.marked
    \/ n \in g.ignored
    \/ g.parent[n] # 0 /\ Discarded(g.parent[n])

\* C7: a node is left out of the tree exactly if a '/-' marker came before
\* it (or before a node or block it lies in); every other node, those that
\* follow a discarded node at the same level included, is part of the tree.
C7_MarkedNodeDiscarded ==
    \A n \in 1..Len(c.nodes) : InTree(n) <=> ~Discarded(n)

\* an input such as '/-a 1' newline 'a 1' has been parsed: the node after
\* the marker is gone, the document is the one node that followed it, with
\* its argument
C7_Witness ==
    /\ pc = "done"
    /\ ret.doc
    /\ g.dropped
    /\ Len(c.nodes) = 1
    /\ c.doc = <<1>>
    /\ 1 \in g.later
    /\ Len(c.nodes[1].Arguments) = 1

\* the values held by node n: its arguments and its properties
ItemsOf(n) ==
    {n.Arguments[i] : i \in 1..Len(n.Arguments)}
        \cup {n.Properties.props[k] : k \in DOMAIN n.Properties.props}

\* C8: an argument or property that follows a '/-' marker is discarded: no
\* node holds a value whose token was scanned while a marker was waiting.
C8_MarkedItemDiscarded ==
    \A n \in 1..Len(c.nodes) : \A v \in ItemsOf(c.nodes[n]) : ~v.sd

\* C9: the elision depth counter follows the children blocks that are to
\* be discarded: it goes up on a '{' that follows a '/-' marker and on each
\* '{' inside such a block, down on each matching '}', and is zero outside
\* any such block.
C9_ElisionDepth == pc = "scan" => c.ignoreChildren = g.elide


(***************************************************************************)
(* Properties of the value codec                                           *)
(***************************************************************************)
\* C2: unquoting the quoted form of a string of valid scalar values
\* succeeds and gives the string back.
C2_UnquoteOfQuote ==
    codec.phase = "unquoted" => ~codec.err /\ codec.out = codec.s

\* the number of '#' that C3 asks for: the least n such that s does not
\* contain a '"' followed by n '#'
MinHashes(s) ==
    CHOOSE n \in 0..Len(s) :
        /\ ~Contains(s, <<chQuote>> \o Repeat(chHash, n))
        /\ \A m \in 0..(n - 1) : Contains(s, <<chQuote>> \o Repeat(chHash, m))

\* C3: the raw form of s is 'r', n '#', '"', s, '"', n '#' with n the least
\* number such that s does not contain a '"' followed by n '#' (none when s
\* has no '"').
C3_RawStringMinimal ==
    codec.phase = "raw" =>
        LET n == MinHashes(codec.s) IN
        codec.out = <<chLowerR>> \o Repeat(chHash, n) \o <<chQuote>> \o codec.s
                        \o <<chQuote>> \o Repeat(chHash, n)

\* the raw form of a string that holds '"#' has been made, with two '#' on
\* each side
C3_Witness ==
    /\ codec.phase = "raw"
    /\ Contains(codec.s, <<chQuote, chHash>>)
    /\ ~Contains(codec.s, <<chQuote, chHash, chHash>>)
    /\ SubSeq(codec.out, 1, 4) = <<chLowerR, chHash, chHash, chQuote>>

(***************************************************************************)
(* Properties of parse-generate-parse-generate                             *)
(***************************************************************************)
\* C1: for every document obtained from a successful parse, the text
\* generated from it parses, and the text generated from that second
\* document is the very text generated from the first
C1_RoundTripFixedPoint ==
    /\ rt.phase # "unreadable"
    /\ rt.phase = "rewritten" => rt.second = rt.first


(***************************************************************************)
(* Properties of the Scanner's marks, peeks and refills                    *)
(***************************************************************************)
\* C14: marks nest as a stack: whatever the caller has pushed, read and
\* popped, copyFromMark returns exactly the bytes of the input consumed
\* since the mark pushed last and not yet popped
C14_MarksNest ==
    lab.phase = "marks" /\ Len(lab.marks) > 0 =>
        /\ Len(stream.marks) = Len(lab.marks)
        /\ copyFromMark(stream).bytes = Slice(lab.text, lab.marks[Len(lab.marks)], lab.pos)
        /\ lab.v # NoData => lab.v = copyFromMark(stream)

\* C15: once get has refilled the buffer, every open mark still stands at
\* the byte of the input it was pushed at, and the bytes from each mark to
\* the cursor are the bytes of the input between the two
C15_RefillKeepsMarks ==
    lab.phase = "marks" /\ lab.refilled =>
        \A k \in 1..Len(stream.marks) :
            Slice(Raw(stream), stream.marks[k], stream.off)
                = Slice(lab.text, lab.marks[k], lab.pos)

\* C19: peeking consumes nothing: a peek of one or two runes leaves the
\* line, the column, the marks and the unread input as they are, and the
\* get that follows any number of peeks returns the rune that the first
\* of them returned
C19_PeekDoesNotConsume ==
    lab.phase = "marks" =>
        /\ \A p \in {peekSize(stream).s, peekTwoSize(stream).s} :
               /\ p.line = stream.line
               /\ p.column = stream.column
               /\ p.marks = stream.marks
               /\ p.len = stream.len
               /\ Input(p) = Input(stream)
        /\ lab.first.seen =>
               /\ get(stream).err = "nil"
               /\ get(stream).c = lab.first.c
               /\ get(peekSize(stream).s).c = lab.first.c
               /\ get(peekTwoSize(stream).s).c = lab.first.c

\* two runes were peeked in the buffer of a reader that has more to give,
\* and get has returned the first of them
C19_Witness ==
    /\ lab.phase = "marks"
    /\ stream.r.live
    /\ lab.pos > UTFMax * 2
    /\ Len(stream.peeked) = 1
    /\ ~lab.first.seen

\* what Token.String shows of a token: its kind and its data
Shown(s) == <<s.token.ID, View(s, s.token.Data)>>

\* C16: after every round the scanner that reads through a buffer and the
\* scanner over the whole input have returned the same from Scan, hold the
\* same error and show the same token
C16_StreamAsPreload ==
    lab.phase = "scan" /\ lab.turn = "preload" /\ lab.i > 0 =>
        /\ lab.pb = lab.ps
        /\ preload.err = stream.err
        /\ Shown(preload) = Shown(stream)

\* C20: the data of every token that the streaming scanner has returned
\* is still what it was when the token was returned
C20_ReturnedTokensKeepData ==
    lab.phase = "scan" =>
        \A k \in 1..Len(lab.returned) :
            View(stream, lab.returned[k].Data) = lab.returned[k].Data.bytes

(***************************************************************************)
(* Properties of ScanOne                                                   *)
(***************************************************************************)
\* what ScanOne(b) returns when no call has gone before
ScanOneAlone(b) == readNextBuffered(NewSlice(b))

\* C17: no two callers are between Lock and Unlock at once, and what a call
\* has returned is what its fragment alone determines: the token and error
\* of a scanner that has seen nothing but this fragment
C17_ScanOneAlone ==
    lab.phase = "idle" /\ DOMAIN calls = Callers =>
        /\ \A p, q \in Callers :
               calls[p].pc \in InScanOne /\ calls[q].pc \in InScanOne => p = q
        /\ \A p \in Callers :
               calls[p].pc \in {"Unlock", "idle"} /\ calls[p].n > 0 =>
                   /\ calls[p].token = ScanOneAlone(calls[p].b).token
                   /\ calls[p].err = ScanOneAlone(calls[p].b).err

\* C18: no call leaves the mutex held: whoever holds it is between Lock
\* and Unlock, so once every call has returned, with or without an error,
\* the mutex is free for the next call
C18_MutexReleased ==
    lab.phase = "idle" /\ DOMAIN calls = Callers =>
        /\ staticScan.mu # 0 => calls[staticScan.mu].pc \in InScanOne
        /\ (\A p \in Callers : calls[p].pc \in {"idle", "Lock"}) => staticScan.mu = 0

\* a call whose fragment could not be scanned has returned its error, the
\* mutex is free and the other caller has locked it since
C18_Witness ==
    /\ lab.phase = "idle"
    /\ DOMAIN calls = Callers
    /\ \E p, q \in Callers :
           /\ calls[p].pc = "idle"
           /\ calls[p].n > 0
           /\ calls[p].err = "unexpected character"
           /\ calls[q].pc = "readNext"
           /\ staticScan.mu = q

(***************************************************************************)
(* Properties of the Scanner's newlines and positions                      *)
(***************************************************************************)
\* the runes of a text
RECURSIVE Runes(_)
Runes(text) ==
    IF Len(text) = 0 THEN << >>
    ELSE <<DecodeRune(text).r>> \o Runes(Slice(text, DecodeRune(text).size, Len(text)))

\* where the line breaks of a sequence of runes end: at every newline
\* character but a CR that has an LF behind it
Breaks(rs) ==
    {i \in 1..Len(rs) : isNewline(rs[i]) /\ ~(rs[i] = 13 /\ i < Len(rs) /\ rs[i + 1] = 10)}

\* the bytes of the tokens ts one after the other: what has been scanned
RECURSIVE Scanned21(_)
Scanned21(ts) == IF Len(ts) = 0 THEN << >> ELSE Head(ts).Data.bytes \o Scanned21(Tail(ts))

NewlineTokens(ts) == {i \in 1..Len(ts) : ts[i].ID = "Newline"}

\* C21: every line break of the input is one Newline token: as many
\* Newline tokens have been returned as the scanned part of the input has
\* line breaks, CR LF being one, and every Newline token is one line break
C21_OneNewlineToken ==
    lab.phase = "lines" =>
        /\ Cardinality(NewlineTokens(lab.tokens))
               = Cardinality(Breaks(Runes(Scanned21(lab.tokens))))
        /\ \A i \in NewlineTokens(lab.tokens) :
               Cardinality(Breaks(Runes(lab.tokens[i].Data.bytes))) = 1

\* a CR LF has been returned as one token and the input was scanned to its end
C21_Witness ==
    /\ lab.phase = "lines"
    /\ ~lab.ok
    /\ preload.err.kind = "nil"
    /\ Scanned21(lab.tokens) = lab.text
    /\ \E i \in NewlineTokens(lab.tokens) : lab.tokens[i].Data.bytes = <<13, 10>>

\* the 1-based line and column of the character behind the runes rs
TruePos(rs) ==
    LET last == IF Breaks(rs) = {} THEN 0
                ELSE CHOOSE i \in Breaks(rs) : \A j \in Breaks(rs) : j <= i
    IN <<1 + Cardinality(Breaks(rs)), 1 + Len(rs) - last>>

\* C22: Pos is the 1-based line and column of the next character: 1, 1 at
\* the start, and column 1 of the next line behind every newline
C22_PosOneBased ==
    lab.phase = "lines" /\ preload.err.kind \in {"nil", "EOF"} =>
        Pos(preload) = TruePos(Runes(Scanned21(lab.tokens)))

(***************************************************************************)
(* Properties of the numbers of package document                           *)
(***************************************************************************)
\* the literal without its '_'
Literal23 == StripUnderscores(lab.tok.Data)

IsFloatLiteral(b) == IndexByte(b, 46) # -1 \/ IndexByte(b, 101) # -1 \/ IndexByte(b, 69) # -1

\* the unsigned digits of an integer literal, without leading zeros
IntegerDigits(b) == TrimLeadingZeros(IF b[1] \in {43, 45} THEN Tail(b) ELSE b)

\* the literal is an integer beyond the int64, or a floating point number
\* beyond the float64
Beyond64(b) ==
    IF IsFloatLiteral(b)
    THEN FloatParts(b).sig # << >> /\ (FloatParts(b).e10 > 308 \/ FloatParts(b).e10 < 0 - 324)
    ELSE ~InInt64(b[1] = 45, [i \in 1..Len(IntegerDigits(b)) |-> IntegerDigits(b)[i] - 48])

\* C23: a literal beyond the 64 bits becomes a *big.Int or a *big.Float
\* without an error, and the text of that value has the digits of the
\* literal: for an integer the sign and the digits without leading zeros,
\* for a floating point number the same sign, significant digits and power
\* of ten
C23_WideNumbersKeepDigits ==
    lab.phase = "number" /\ Beyond64(Literal23) =>
        /\ lab.step \in {"value", "text"} =>
               ~lab.err /\ lab.v.Value.k \in {"big.Int", "big.Float"}
        /\ lab.step = "text" =>
               IF IsFloatLiteral(Literal23)
               THEN FloatParts(lab.out) = FloatParts(Literal23)
               ELSE lab.out = (IF Literal23[1] = 45 THEN <<45>> ELSE << >>)
                              \o IntegerDigits(Literal23)

\* the only node of the document of context cx
OnlyNode(cx) == cx.nodes[cx.doc[1]]

\* C24: n 0xFF parses to one node n with one argument and nothing else,
\* the argument is the integer 255 with the hexadecimal flag, its text with
\* the format kept is 0xff, and so it stands in the generated document
C24_HexArgument ==
    rt.input = <<110, 32, 48, 120, 70, 70>> =>
        /\ rt.phase # "rejected"
        /\ rt.phase \in {"parsed", "written"} =>
               /\ Len(c.doc) = 1
               /\ OnlyNode(c).Name[1].Value = GoString(<<110>>)
               /\ OnlyNode(c).Children = << >>
               /\ OnlyNode(c).Properties = NoProperties
               /\ Len(OnlyNode(c).Arguments) = 1
               /\ OnlyNode(c).Arguments[1].Value = GoInt(255)
               /\ OnlyNode(c).Arguments[1].Flag = "FlagHexadecimal"
               /\ FormattedString(OnlyNode(c).Arguments[1]) = <<48, 120, 102, 102>>
        /\ rt.phase = "written" => rt.first = <<110, 32, 48, 120, 102, 102, 10>>

\* n 0xFF has been parsed and the document has been generated
C24_Witness ==
    /\ rt.input = <<110, 32, 48, 120, 70, 70>>
    /\ rt.phase = "written"
    /\ OnlyNode(c).Arguments[1].Flag = "FlagHexadecimal"

\* C25: whatever the flag of a Value, the text written for it with the
\* format kept parses to one argument that holds what the Value holds
C25_FlagKeepsValue ==
    lab.phase = "flags" /\ lab.step = "back" =>
        /\ lab.back.found = "arguments"
        /\ Len(lab.back.args) = 1
        /\ lab.back.args[1].Value = lab.v.Value

\* the text of a suffixed decimal is its digits and points followed by the
\* rest, its suffix
SuffixStart26(b) ==
    IF \A i \in 1..Len(b) : b[i] \in 48..57 \/ b[i] = 46 THEN Len(b) + 1
    ELSE CHOOSE i \in 1..Len(b) :
             /\ ~(b[i] \in 48..57 \/ b[i] = 46)
             /\ \A j \in 1..(i - 1) : b[j] \in 48..57 \/ b[j] = 46

Prefix26(b) == SubSeq(b, 1, SuffixStart26(b) - 1)

Rest26(b) == SubSeq(b, SuffixStart26(b), Len(b))

\* k is 1, m is 2, g is 3, t is 4, in either case
Letter26(ch) ==
    IF ch \in {107, 75} THEN 1 ELSE IF ch \in {109, 77} THEN 2
    ELSE IF ch \in {103, 71} THEN 3 ELSE IF ch \in {116, 84} THEN 4 ELSE 0

\* ds doubled k times
RECURSIVE Doubled26(_, _)
Doubled26(ds, k) ==
    IF Len(ds) >= 0 /\ k = 0 THEN ds ELSE Doubled26(AddDigits(ds, ds), k - 1)

\* the number of text b times 1000^n: its digits, three places up for
\* each factor
Times1000(b, n) == [FloatParts(b) EXCEPT !.e10 = @ + 3 * n]

\* the number of text b times 1024^n, which is 2^(10 n)
Times1024(b, n) ==
    LET p == FloatParts(b)
        d == [i \in 1..Len(p.sig) |-> p.sig[i] - 48]
        prod == Doubled26(d, 10 * n) IN
    [neg |-> p.neg, sig |-> TrimZeros(DigitBytes(prod)), e10 |-> p.e10 + Len(prod) - Len(d)]

Resolved26(parts) ==
    /\ lab.step = "resolved"
    /\ ~lab.err
    /\ lab.v.k \in {"float", "big.Float"}
    /\ NumberParts(lab.v) = parts

UnitLetters27 ==
    /\ lab.unit # << >>
    /\ \A i \in 1..Len(lab.unit) : lab.unit[i] \in 65..90 \/ lab.unit[i] \in 97..122

\* C27: a SuffixedDecimal token is returned under MultiplierSuffixes
\* alone, and with the strict flags a number that has letters behind it is
\* an error of the scanner and of the parse, which gives no value
C27_SuffixNeedsFlag ==
    lab.phase = "units" /\ lab.step \in {"scanned", "parsed"} =>
        /\ lab.sc.status = "ok" /\ lab.sc.tok.ID = "SuffixedDecimal" =>
               Permit(lab.f, MultiplierSuffixes)
        /\ lab.f = 0 /\ UnitLetters27 =>
               /\ lab.sc.status = "error"
               /\ lab.step = "parsed" => lab.back.found = "error"

\* 2.3kb was scanned under MultiplierSuffixes as one SuffixedDecimal token
\* and parsed to the SuffixedDecimal of 2.3 and kb
C27_Witness ==
    /\ lab.phase = "units"
    /\ lab.step = "parsed"
    /\ lab.f = MultiplierSuffixes
    /\ lab.num \o lab.unit = <<50, 46, 51, 107, 98>>
    /\ lab.sc.status = "ok"
    /\ lab.sc.tok.ID = "SuffixedDecimal"
    /\ lab.sc.tok.Data = <<50, 46, 51, 107, 98>>
    /\ lab.back.found = "arguments"
    /\ Len(lab.back.args) = 1
    /\ lab.back.args[1].Value = GoSuffixed(<<50, 46, 51>>, <<107, 98>>)

\* ": ", "=" and " = "
Separators28 == {<<58, 32>>, <<61>>, <<32, 61, 32>>}

\* the plain text has parsed to one node of that name with one argument
\* and nothing else
OneArgument28 ==
    /\ ~lab.plain.failed
    /\ Len(lab.plain.doc) = 1
    /\ lab.plain.nodes[lab.plain.doc[1]].Name[1].Value = GoString(lab.name)
    /\ Len(lab.plain.nodes[lab.plain.doc[1]].Arguments) = 1
    /\ lab.plain.nodes[lab.plain.doc[1]].Properties = NoProperties
    /\ lab.plain.nodes[lab.plain.doc[1]].Children = << >>

\* C28: under YAMLTOMLAssignments a node written name: v, name=v or
\* name = v parses to the document of name v, one node with the one
\* argument; under the strict flags it does not
C28_AssignmentSeparators ==
    lab.phase = "assign" /\ lab.step = "assigned" /\ lab.sep \in Separators28 =>
        /\ OneArgument28
        /\ lab.f = YAMLTOMLAssignments => lab.assigned = lab.plain
        /\ lab.f = 0 => lab.assigned # lab.plain

\* yaml: 1234 has parsed under YAMLTOMLAssignments to the node yaml with
\* the argument 1234
C28_Witness ==
    /\ lab.phase = "assign"
    /\ lab.step = "assigned"
    /\ lab.f = YAMLTOMLAssignments
    /\ lab.name = <<121, 97, 109, 108>>
    /\ lab.sep = <<58, 32>>
    /\ lab.v = <<49, 50, 51, 52>>
    /\ ~lab.assigned.failed
    /\ Len(lab.assigned.doc) = 1
    /\ lab.assigned.nodes[lab.assigned.doc[1]].Name[1].Value = GoString(<<121, 97, 109, 108>>)
    /\ Len(lab.assigned.nodes[lab.assigned.doc[1]].Arguments) = 1
    /\ lab.assigned.nodes[lab.assigned.doc[1]].Arguments[1].Value = GoInt(1234)

\* the openers and closers of text from offset i, from left to right and
\* none overlapping another: 1 for an opener, -1 for a closer, and the
\* offset behind it
RECURSIVE Delimiters29(_, _)
Delimiters29(text, i) ==
    IF i + 2 > Len(text) THEN << >>
    ELSE IF text[i + 1] = 47 /\ text[i + 2] = 42
    THEN <<[d |-> 1, end |-> i + 2]>> \o Delimiters29(text, i + 2)
    ELSE IF text[i + 1] = 42 /\ text[i + 2] = 47
    THEN <<[d |-> -1, end |-> i + 2]>> \o Delimiters29(text, i + 2)
    ELSE Delimiters29(text, i + 1)

\* the nesting depth behind the first k of the delimiters ds
RECURSIVE Depth29(_, _)
Depth29(ds, k) == IF k = 0 THEN 0 ELSE Depth29(ds, k - 1) + ds[k].d

\* the closers that bring the depth back to zero
Closing29(ds) == {k \in 1..Len(ds) : Depth29(ds, k) = 0}

\* C29: the comment that is read ends behind the first closer at which
\* the depth of the openers is zero again, and is the whole of the input
\* up to there; where the input ends with the depth above zero, readNext
\* returns an error and no token
C29_CommentNesting ==
    lab.phase = "comments" /\ lab.step = "scanned" =>
        LET ds == Delimiters29(lab.text, 0) IN
        IF Closing29(ds) = {}
        THEN lab.sc.status = "error"
        ELSE /\ lab.sc.status = "ok"
             /\ lab.sc.tok.ID = "MultiLineComment"
             /\ \E k \in Closing29(ds) :
                    /\ \A j \in Closing29(ds) : k <= j
                    /\ lab.sc.next = ds[k].end
                    /\ lab.sc.tok.Data = SubSeq(lab.text, 1, ds[k].end)

\* the comment /*/**/*/ with a comment inside it was read as one token
C29_Witness ==
    /\ lab.phase = "comments"
    /\ lab.step = "scanned"
    /\ lab.text = <<47, 42, 47, 42, 42, 47, 42, 47>>
    /\ lab.sc.status = "ok"
    /\ lab.sc.tok.ID = "MultiLineComment"
    /\ lab.sc.tok.Data = lab.text

\* the places of the body where a '"' stands with k '#' and more behind it
Terminators30(body, k) ==
    {q \in 1..Len(body) :
         /\ body[q] = 34
         /\ q + k <= Len(body)
         /\ \A j \in 1..k : body[q + j] = 35}

FirstTerminator30(body, k) ==
    CHOOSE q \in Terminators30(body, k) : \A q2 \in Terminators30(body, k) : q <= q2

\* C30: a raw string opened by r, k '#' and '"' ends at the first '"' that
\* has k '#' or more behind it, the token taking k of them, and holds what
\* stands before that '"', a '"' with fewer '#' behind it included; where
\* the input has no such '"', readNext returns an error
C30_RawStringEnd ==
    lab.phase = "raw" /\ lab.step \in {"failed", "scanned", "value"} =>
        IF Terminators30(lab.body, lab.hashes) = {}
        THEN lab.step = "failed" /\ lab.sc.status = "error"
        ELSE /\ lab.step # "failed"
             /\ lab.sc.tok.ID = "RawString"
             /\ lab.sc.tok.Data =
                    RawText(lab.hashes,
                            SubSeq(lab.body, 1,
                                   FirstTerminator30(lab.body, lab.hashes) + lab.hashes))
             /\ lab.step = "value" =>
                    /\ ~lab.err
                    /\ lab.v.Flag = "FlagRaw"
                    /\ lab.v.Value =
                           GoString(SubSeq(lab.body, 1,
                                           FirstTerminator30(lab.body, lab.hashes) - 1))

\* r##""#"## was read as one token that holds "#
C30_Witness ==
    /\ lab.phase = "raw"
    /\ lab.step = "value"
    /\ lab.hashes = 2
    /\ lab.body = <<34, 35, 34, 35, 35>>
    /\ lab.sc.tok.Data = RawText(2, lab.body)
    /\ lab.v.Value = GoString(<<34, 35>>)

IsHexDigit31(b) == (b >= 48 /\ b <= 57) \/ (b >= 97 /\ b <= 102) \/ (b >= 65 /\ b <= 70)

HexDigit31(b) == IF b <= 57 THEN b - 48 ELSE IF b <= 70 THEN b - 55 ELSE b - 87

RECURSIVE HexNumber31(_)
HexNumber31(ds) ==
    IF ds = << >> THEN 0
    ELSE HexNumber31(SubSeq(ds, 1, Len(ds) - 1)) * 16 + HexDigit31(ds[Len(ds)])

\* the escape is one the specification accepts
GoodEscape31 ==
    /\ lab.closed
    /\ Len(lab.digits) >= 1
    /\ Len(lab.digits) <= 6
    /\ \A i \in 1..Len(lab.digits) : IsHexDigit31(lab.digits[i])
    /\ HexNumber31(lab.digits) <= 1114111

\* C31: UnquoteString returns an error for a \u escape unless its braces
\* are closed and hold 1 to 6 hexadecimal digits of a value up to U+10FFFF
C31_EscapeChecked ==
    lab.phase = "escape" /\ codec.phase = "unquoted" => (codec.err <=> ~GoodEscape31)

\* the lines the specification has for the nodes list[i..] at depth d: a
\* line is its depth and what stands behind the indentation
RECURSIVE Lines32(_, _, _, _)
Lines32(nodes, list, i, d) ==
    IF i > Len(list) THEN << >>
    ELSE (IF nodes[list[i]].Children = << >>
          THEN <<[depth |-> d, text |-> nodes[list[i]].Name[1].Value.s]>>
          ELSE <<[depth |-> d,
                  text |-> nodes[list[i]].Name[1].Value.s \o <<32, chBraceOpen>>]>>
               \o Lines32(nodes, nodes[list[i]].Children, 1, d + 1)
               \o <<[depth |-> d, text |-> <<chBraceClose>>]>>)
         \o Lines32(nodes, list, i + 1, d)

\* the lines, each behind depth copies of unit and before a newline
RECURSIVE Indented32(_, _)
Indented32(lines, unit) ==
    IF lines = << >> THEN << >>
    ELSE BytesRepeat(unit, Head(lines).depth) \o Head(lines).text \o <<10>>
         \o Indented32(Tail(lines), unit)

\* C32: the generated text holds the nodes depth-first, in pre-order and in
\* stored order, one to a line behind as many copies of the indent unit as
\* the node is deep; the children of a node at depth d stand at depth d+1
\* between its '{' and a '}' on a line of depth d, before its next sibling
C32_DepthFirstIndented ==
    lab.phase = "indent" /\ rt.phase = "written" =>
        rt.first = Indented32(Lines32(c.nodes, c.doc, 1, 0), lab.Indent)

\* a{ b{ a } b } b was written with two spaces to a level
C32_Witness ==
    /\ lab.phase = "indent"
    /\ rt.phase = "written"
    /\ lab.Indent = <<32, 32>>
    /\ rt.first = <<97, 32, 123, 10,
                    32, 32, 98, 32, 123, 10,
                    32, 32, 32, 32, 97, 10,
                    32, 32, 125, 10,
                    32, 32, 98, 10,
                    125, 10>>

\* node n of the heap is no longer on the node stack: the parser has moved
\* past its terminator or its '}'
Closed33(cx, n) == \A i \in 1..Len(cx.node) : cx.node[i] # n

C33_WitnessBlock ==
    /\ pc = "scan"
    /\ Len(c.nodes) = 2
    /\ c.doc = <<1>>
    /\ c.nodes[1].Children = <<2>>
    /\ c.node = << >>
    /\ c.state = "stateDocument"
    /\ token.ID = "Newline"

\* white space, a comment or a terminator
Between34(id) ==
    id \in {"Whitespace", "SingleLineComment", "MultiLineComment", "Newline", "Semicolon",
            "EOF"}

\* the states in which a name or a value may follow
Annotating34 == {"stateDocument", "stateChildren", "stateNodeParams"}

\* a turn that accepts a name or a value while a type annotation is pending
\* comes right behind the ')' of the annotation (or behind a '/-' marker)
AnnotatedIsNext34 ==
    /\ pc = "scan"
    /\ Valid(c.typeAnnot)
    /\ c.state \in Annotating34
    /\ scanner'.left < scanner.left
    /\ IsValueToken(token'.ID)
    /\ pc' = "scan"
    => token.ID \in {"ParensClose", "TokenComment"}

\* a turn that scans white space, a comment or a terminator while a type
\* annotation is pending ends the parse with an error
BetweenIsError34 ==
    /\ pc = "scan"
    /\ Valid(c.typeAnnot)
    /\ c.state \in Annotating34
    /\ scanner'.left < scanner.left
    /\ Between34(token'.ID)
    => pc' = "done" /\ ret'.err # NoErr

\* C34: white space, a comment or a terminator behind the ')' of a type
\* annotation is a parse error in the Document, Children and NodeParams
\* states, and the name or value that takes a pending annotation is the
\* token right behind the ')', never a later one
C34_AnnotationAdjacent == [][BetweenIsError34 /\ AnnotatedIsNext34]_vars

\* the number of entries of stack that are state
RECURSIVE Count35(_, _)
Count35(stack, state) ==
    IF stack = << >> THEN 0
    ELSE (IF Head(stack) = state THEN 1 ELSE 0) + Count35(Tail(stack), state)

\* the blocks that are open in context cx: the states, saved or current,
\* that a '{' has entered
OpenBlocks35(cx) == Count35(Append(cx.states, cx.state), "stateChildren")

\* 1 between the '(' and the ')' of a type annotation, else 0
OpenAnnotation35(cx) ==
    IF cx.state \in {"stateTypeAnnot", "stateTypeDone"} THEN 1 ELSE 0

\* what the token opens (+1) or closes (-1)
Opens35(id) ==
    CASE id \in {"BraceOpen", "ParensOpen"} -> 1
      [] id \in {"BraceClose", "ParensClose"} -> 0 - 1
      [] OTHER -> 0

\* while parsing, the state stack is as deep as the nesting: one entry for
\* each node that has been started and not ended, one for each open block,
\* and one inside the parentheses of a type annotation
DepthIsNesting35 ==
    pc = "scan" =>
        Len(c.states) = Len(c.node) + OpenBlocks35(c) + OpenAnnotation35(c)

\* once parse has returned without an error both stacks are empty
EmptyAtSuccess35 ==
    pc = "done" /\ ret = ReturnDocument => c.states = << >> /\ c.node = << >>

\* a turn that the parser accepts pushes one state for a '{' and pops one
\* for a '}', pushes or pops at most one node, a node it pushes being a new
\* one, and moves the state stack with the node stack
TurnIsBalanced35 ==
    pc = "scan" /\ pc' = "scan" /\ scanner'.left < scanner.left =>
        /\ Len(c'.states) - Len(c.states)
               = (Len(c'.node) - Len(c.node)) + Opens35(token'.ID)
        /\ token'.ID \in {"BraceOpen", "BraceClose"} => c'.node = c.node
        /\ \/ c'.node = c.node
           \/ c'.node = Append(c.node, Len(c.nodes) + 1)
           \/ Len(c.node) > 0 /\ c'.node = SubSeq(c.node, 1, Len(c.node) - 1)

UnmatchedClose36 ==
    IF pc = "scan" /\ scanner.at = "open" /\ OpenBlocks35(c) = 0
       /\ Follows(token.ID, "BraceClose", c.opts.RelaxedNonCompliant)
    THEN {Stamp(Token("BraceClose", <<125>>), ln) : ln \in 1..MaxLine}
    ELSE {}

\* Parse refuses such a '}' and leaves the context as it is: no state is
\* popped, not even from an empty stack, and no node is closed
CloseRefused36 ==
    \A t \in UnmatchedClose36 :
        /\ Parse(c, t).err.msg = "unexpected token"
        /\ Parse(c, t).c = c

\* the turn that scans such a '}' ends the parse with an error and without
\* a document
CloseEndsParse36 ==
    /\ pc = "scan"
    /\ OpenBlocks35(c) = 0
    /\ scanner'.left < scanner.left
    /\ token'.ID = "BraceClose"
    => pc' = "done" /\ ~ret'.doc /\ ret'.err # NoErr

\* C36: a '}' with no open '{' to match, at the top level or after every
\* block has been closed, is a parse error: it pops no state, closes no
\* node, and the parse does not succeed
C36_UnmatchedCloseIsError == [][CloseRefused36 /\ CloseEndsParse36]_vars

\* a block has been opened and closed on a node that is still open, and
\* another '}' can come next
C36_Witness ==
    /\ UnmatchedClose36 # {}
    /\ scanner.left > 0
    /\ token.ID = "BraceClose"
    /\ Len(c.node) = 1

\* a turn of the loop that scans an '='
EqualsTurn37 ==
    /\ pc = "scan"
    /\ scanner'.left < scanner.left
    /\ token'.ID = "Equals"

\* the '=' that makes what is held the key of a property comes right behind
\* a bare identifier, a quoted string or a raw string, which is the key,
\* and no type annotation is pending
SeparatorAfterKey37 ==
    EqualsTurn37 /\ pc' = "scan" /\ c'.state = "statePropertyValue" =>
        /\ token.ID \in {"BareIdentifier", "QuotedString", "RawString"}
        /\ c.ident = token
        /\ ~Valid(c.typeAnnot)

\* an '=' right behind a number, a boolean or null, or behind a value while
\* a type annotation is pending, ends the parse with an error and without
\* a document
EqualsAfterValueIsError37 ==
    /\ EqualsTurn37
    /\ \/ IsNumberToken(token.ID)
       \/ token.ID \in {"Boolean", "Null"}
       \/ IsValueToken(token.ID) /\ Valid(c.typeAnnot)
    => pc' = "done" /\ ~ret'.doc /\ ret'.err # NoErr

\* C37: an '=' is accepted as a property separator only behind an
\* unannotated bare identifier, quoted string or raw string; an '=' behind
\* a number, a boolean or null, or behind an annotated key, is a parse
\* error that adds neither an argument nor a property
C37_EqualsOnlyAfterKey == [][SeparatorAfterKey37 /\ EqualsAfterValueIsError37]_vars

\* C38: every input that parses under the default flags parses under any
\* set of relaxed flags as well, and to the same tree
C38_RelaxedAdmitsMore ==
    lab.phase = "relax" /\ lab.step = "relaxed" /\ ~lab.strict.failed =>
        lab.relaxed = lab.strict

\* no call of Scan has failed with a lexical error
NoLexicalError39 ==
    \A k \in 1..Len(lab.scans) : lab.scans[k].err \in {"nil", "EOF"}

\* the calls of Scan that delivered the EOF token
EOFCalls39 == {k \in 1..Len(lab.scans) : lab.scans[k].ok /\ lab.scans[k].id = "EOF"}

\* C39: on an input that ends without a lexical error Scan delivers the EOF
\* token exactly once, after all other tokens; every later call returns
\* false and delivers no token, and Err reports no error after it
C39_EOFOnce ==
    lab.phase = "drain" /\ NoLexicalError39 =>
        \A j \in EOFCalls39 :
            /\ \A k \in 1..(j - 1) : lab.scans[k].ok /\ lab.scans[k].id # "EOF"
            /\ \A k \in (j + 1)..Len(lab.scans) :
                   ~lab.scans[k].ok /\ lab.scans[k].err = "nil"

\* the radix literal of the integer held by v: the prefix of the flag and
\* the digits in its base
RadixLiteral40(v) ==
    NumericPrefix(NumericBase(v, {"voUseNumericFlags"}))
        \o AppendUint(v.Value.n, NumericBase(v, {"voUseNumericFlags"}))

\* C40: the format-preserving text of a value that has a type annotation
\* and a radix flag is the annotation in parentheses followed by the radix
\* literal, whatever the annotation and the flag
C40_AnnotationKept ==
    /\ lab.phase = "annotated"
    /\ lab.step = "text"
    /\ Len(lab.v.Type) > 0
    /\ lab.v.Flag \in RadixFlags
    => lab.out = <<40>> \o lab.v.Type \o <<41>> \o RadixLiteral40(lab.v)

====
